---- MODULE Spec2Model ----
(***************************************************************************)
(* Request-scope resolution core of the API server: the scope resolver     *)
(* (staging/src/k8s.io/apiserver/pkg/scope/scopedefinition_resolver.go),   *)
(* the in-memory scope objects it publishes, and the per-watch handler     *)
(* (scope_watch_handler.go).                                               *)
(*                                                                         *)
(* Go semantics the model relies on:                                       *)
(*  - new(chan struct{}) allocates a zero-valued channel variable and      *)
(*    returns a pointer to it; the zero value of a channel type is nil.    *)
(*    Both constructors of a scope with an expiredCh (buildExpiringScope   *)
(*    and NewScopeWatchHandler) use it, and nothing ever assigns the       *)
(*    channel, so the channel behind expiredCh stays nil.                  *)
(*  - close of a nil channel panics; a receive from a nil channel blocks   *)
(*    forever, and a select never chooses such a case.                     *)
(*  - the arguments of a deferred call are evaluated when the defer        *)
(*    statement runs, not when the deferred call runs.                     *)
(***************************************************************************)
EXTENDS Integers, Sequences, FiniteSets, TLC

VARIABLES
  lister,      \* informer cache: object name -> ScopeDefinition, NoDef or Gone
  nextID,      \* number of scopeIDs the admission plugin has generated
  queue,       \* work queue: keys waiting, in order
  dirty,       \* work queue: keys added and not yet handed out
  processing,  \* work queue: keys handed out and not yet Done
  scopes,      \* DefaultScopeResolver.scopes: scopeName -> scopeValue -> *scope
  heap,        \* the *scope objects allocated so far (index = address)
  alive,       \* the API server process is running
  pc,          \* position of the single reconciliation worker
  wkey,        \* the key the worker took from the queue
  wdef,        \* process: def, as read from the lister
  wexisting,   \* process: existingScope (address) or 0
  wnew,        \* process: newScope (address) or 0
  lastResult,  \* processNextWorkItem: how the last process call ended
  resolved,    \* a caller: the distinct scopeIDs its successful Resolve calls returned, in order
  held,        \* a caller: address of the Scope its last Resolve returned, or 0
  observed,    \* a caller: it has seen the Scope it holds expired
  gate,        \* the caller's watch handler (scopeWatchHandler) and its goroutine
  request,     \* an HTTP request on its way through the handler chain
  controller,  \* the scope controller: its work queue and its worker
  run,         \* DefaultScopeResolver.Run: its context, its return, the queue's shutdown
  storeMapper, \* the simpleStoreMapper built from the options, and its last call
  fleet        \* the status writes of the servers: their copies of the object, the stores' versions

vars == <<lister, nextID, queue, dirty, processing, scopes, heap, alive, pc,
          wkey, wdef, wexisting, wnew, lastResult, resolved, held, observed,
          gate, request, controller, run, storeMapper, fleet>>

-----------------------------------------------------------------------------
(* Bounds of the model *)

\* scopeIDs the admission plugin may generate in one run
MaxGen == 2

(* Object names, as sequences of characters *)
KeyWA == <<"w", ":", "a">>
KeyWB == <<"w", ":", "b">>
Keys == {KeyWA, KeyWB}

(* status.namespaces values a controller may write *)
NamespaceLists == {<<"ns-a", "ns-b">>, <<"ns-a", "ns-c">>}

\* What the lister holds for an object name: a ScopeDefinition (its status),
\* or nothing because it was never created (NoDef) or was deleted (Gone).
\* scopeID 0 stands for the empty string of a status that was never written.
\* specNamespaces is spec.namespaces; the other fields are the status.
NoDef ==
  [state |-> "NoDef", scopeID |-> 0, namespaces |-> <<>>,
   serverScopeVersions |-> <<>>, minimumResourceVersions |-> <<>>,
   specNamespaces |-> <<>>]
Gone ==
  [state |-> "Gone", scopeID |-> 0, namespaces |-> <<>>,
   serverScopeVersions |-> <<>>, minimumResourceVersions |-> <<>>,
   specNamespaces |-> <<>>]
Definition(id, ns, ssvs) ==
  [state |-> "present", scopeID |-> id, namespaces |-> ns,
   serverScopeVersions |-> ssvs, minimumResourceVersions |-> <<>>,
   specNamespaces |-> <<>>]

(* The store mapper's stores, this server's ID, resource versions a store may report *)
Stores == {"store-x", "store-y"}
ThisServer == "apiserver-1"
ThatServer == "apiserver-2"
Servers == {ThisServer, ThatServer}
ResourceVersions == {1, 2}
NoErr == "nil"
ErrChanged == "scope configuration changed"
ErrInternal == "internal error"
NilChan == "nil"
OpenChan == "open"
ClosedChan == "closed"

-----------------------------------------------------------------------------
(* strings.SplitN(s, ":", 2) *)

RECURSIVE IndexOf(_, _, _)
IndexOf(s, c, i) ==
  IF i > Len(s) THEN 0
  ELSE IF s[i] = c THEN i
  ELSE IndexOf(s, c, i + 1)

SplitN2(s, sep) ==
  LET i == IndexOf(s, sep, 1) IN
    IF i = 0 THEN <<s>>
    ELSE <<SubSeq(s, 1, i - 1), SubSeq(s, i + 1, Len(s))>>

\* a slip in "scopeName, scopeValue := parts[0], parts[1]": both from parts[0]
ScopeValueOf_UsesName(key) == SplitN2(key, ":")[1]

ScopeNameOf(key) == SplitN2(key, ":")[1]
ScopeValueOf(key) == SplitN2(key, ":")[2]

(* ObjectName / DefinitionName: name + ":" + value *)
ObjectName(name, value) == name \o <<":">> \o value

Selectors == {<<ScopeNameOf(k), ScopeValueOf(k)>> : k \in Keys}

-----------------------------------------------------------------------------
(* Resource versions as the API carries them: strings of characters *)

Digits == <<"0", "1", "2", "3", "4", "5", "6", "7", "8", "9">>

IsDigit(c) == \E i \in 1..Len(Digits) : Digits[i] = c

DigitValue(c) == (CHOOSE i \in 1..Len(Digits) : Digits[i] = c) - 1

\* FormatUint that writes the last digit only
FormatUint_LastDigit(n) == <<Digits[(n % 10) + 1]>>

\* strconv.FormatUint(n, 10)
RECURSIVE FormatUint(_)
FormatUint(n) ==
  IF n < 10 THEN <<Digits[n + 1]>>
  ELSE Append(FormatUint(n \div 10), Digits[(n % 10) + 1])

\* the resource version is not one ParseResourceVersion accepts
ParseFails(s) == s # <<>> /\ \E i \in 1..Len(s) : ~IsDigit(s[i])

\* APIObjectVersioner.ParseResourceVersion: "" and "0" are 0, else the
\* decimal value
RECURSIVE ParseResourceVersion(_)
ParseResourceVersion(s) ==
  IF s = <<>> THEN 0
  ELSE 10 * ParseResourceVersion(SubSeq(s, 1, Len(s) - 1)) + DigitValue(s[Len(s)])

-----------------------------------------------------------------------------
(* The admission plugin, on an update of scopedefinitions/status: a status *)
(* whose namespaces differ from the stored ones gets a freshly generated   *)
(* scopeID, any other keeps the scopeID of the request; the minimum        *)
(* resource versions are computed from status.serverScopeVersions.         *)

AdmitScopeID(old, obj, fresh) ==
  IF old.namespaces # obj.namespaces THEN fresh ELSE obj.scopeID

\* the order strings.Compare gives the store IDs
StoreOrder == <<"store-x", "store-y">>

\* the rv of the left entry is before the rv of the right one, as strings
Greater_AsStrings(a, b) ==
  \/ Len(a) > 0 /\ Len(b) = 0
  \/ /\ Len(a) > 0 /\ Len(b) > 0
     /\ \E i \in 1..Len(a) :
          /\ \A j \in 1..(i - 1) : j <= Len(b) /\ a[j] = b[j]
          /\ \/ i > Len(b)
             \/ DigitValue(a[i]) > DigitValue(b[i])

\* the less function of the sort.Slice call: vals[i].rv > vals[j].rv
Greater(a, b) == ParseResourceVersion(a) > ParseResourceVersion(b)

\* the resource versions sort.Slice may leave at vals[0] for a store: an
\* entry of the store that no other entry of the store sorts before
FirstAfterSort(ssvs, store) ==
  {ssvs[i].resourceVersion : i \in
     {i \in 1..Len(ssvs) :
        /\ ssvs[i].storeID = store
        /\ \A j \in 1..Len(ssvs) :
             ssvs[j].storeID = store =>
               ~Greater(ssvs[j].resourceVersion, ssvs[i].resourceVersion)}}

\* buildMinimumResourceVersions fails: some resource version does not parse
buildMinimumResourceVersionsFails(ssvs) ==
  \E i \in 1..Len(ssvs) : ParseFails(ssvs[i].resourceVersion)

\* buildMinimumResourceVersions: the lists it may return, one entry per
\* store of ssvs, ordered by store ID
buildMinimumResourceVersions(ssvs) ==
  LET present(s) == \E i \in 1..Len(ssvs) : ssvs[i].storeID = s
      order == SelectSeq(StoreOrder, present)
  IN  {[i \in 1..Len(order) |->
          [storeID |-> order[i], resourceVersion |-> f[order[i]]]] :
        f \in {g \in [{order[i] : i \in 1..Len(order)} ->
                       {ssvs[i].resourceVersion : i \in 1..Len(ssvs)}] :
                 \A i \in 1..Len(order) : g[order[i]] \in FirstAfterSort(ssvs, order[i])}}

-----------------------------------------------------------------------------
(* scope objects *)

\* built the way newScope builds it: current is left false
buildExpiringScope_AsNewScope(def, key) ==
  [ name       |-> ScopeNameOf(key),
    value      |-> ScopeValueOf(key),
    namespaces |-> def.namespaces,
    identifier |-> def.scopeID,
    current    |-> FALSE,
    err        |-> NoErr,
    expiredCh  |-> NilChan ]

buildExpiringScope(def, key) ==
  [ name       |-> ScopeNameOf(key),
    value      |-> ScopeValueOf(key),
    namespaces |-> def.namespaces,
    identifier |-> def.scopeID,
    current    |-> TRUE,
    err        |-> NoErr,
    expiredCh  |-> NilChan ]

\* expire without the test of s.current
expire_Unguarded(s, err) ==
  [s EXCEPT !.current = FALSE,
            !.err = err,
            !.expiredCh = IF @ = OpenChan THEN ClosedChan ELSE @]

(* scope.expire(err): what it leaves in the object *)
expire(s, err) ==
  IF ~s.current THEN s
  ELSE [s EXCEPT !.current = FALSE,
                 !.err = err,
                 !.expiredCh = IF @ = OpenChan THEN ClosedChan ELSE @]

\* scope.expire(err): whether the close of the channel behind s.expiredCh panics
expirePanics(s) == s.current /\ s.expiredCh # OpenChan

(* Expired(s): the non-blocking receive from s.Expired() *)
Expired(s) == s.expiredCh = ClosedChan

(* scope.Err() *)
Err(s) == s.err

-----------------------------------------------------------------------------
(* The selector table *)

HasName(tbl, name) == name \in DOMAIN tbl
HasValue(tbl, name, value) == HasName(tbl, name) /\ value \in DOMAIN tbl[name]

\* writeScope that stores only when the selector has no entry yet
writeScope_KeepsExisting(tbl, name, value, addr) ==
  IF HasValue(tbl, name, value) THEN tbl
  ELSE [n \in (DOMAIN tbl) \cup {name} |->
          IF n = name
          THEN [v \in (IF HasName(tbl, name) THEN DOMAIN tbl[name] ELSE {}) \cup {value} |->
                  IF v = value THEN addr ELSE tbl[name][v]]
          ELSE tbl[n]]

(* writeScope(name, value, def) with def # nil: the table afterwards *)
writeScope(tbl, name, value, addr) ==
  LET inner == IF HasName(tbl, name) THEN tbl[name] ELSE <<>> IN
  LET inner2 == [v \in (DOMAIN inner) \cup {value} |->
                    IF v = value THEN addr ELSE inner[v]] IN
    [n \in (DOMAIN tbl) \cup {name} |-> IF n = name THEN inner2 ELSE tbl[n]]

\* readScope that looks the value up but returns the entry of some value
readScope_AnyValue(tbl, name, value) ==
  IF ~HasName(tbl, name) THEN 0
  ELSE IF value \notin DOMAIN tbl[name] THEN 0
  ELSE tbl[name][CHOOSE v \in DOMAIN tbl[name] : \A w \in DOMAIN tbl[name] : tbl[name][v] <= tbl[name][w]]

(* readScope(name, value): the address found, or 0 for an error *)
readScope(tbl, name, value) ==
  IF ~HasName(tbl, name) THEN 0
  ELSE IF value \notin DOMAIN tbl[name] THEN 0
  ELSE tbl[name][value]

\* writeScope(name, value, nil): the table afterwards
clearScope(tbl, name, value) ==
  IF ~HasName(tbl, name) THEN tbl
  ELSE [tbl EXCEPT ![name] = [v \in (DOMAIN tbl[name]) \ {value} |-> tbl[name][v]]]

-----------------------------------------------------------------------------
(* status.serverScopeVersions (scope_util.go) *)

RECURSIVE filterOutServerScopeVersion_ByStore(_, _, _)
\* filterOutServerScopeVersion that compares the store ID only
filterOutServerScopeVersion_ByStore(conditions, apiServerID, storeID) ==
  IF conditions = <<>> THEN <<>>
  ELSE LET c == Head(conditions)
           rest == filterOutServerScopeVersion_ByStore(Tail(conditions), apiServerID, storeID) IN
         IF c.storeID = storeID THEN rest
         ELSE <<c>> \o rest

RECURSIVE filterOutServerScopeVersion(_, _, _)
filterOutServerScopeVersion(conditions, apiServerID, storeID) ==
  IF conditions = <<>> THEN <<>>
  ELSE LET c == Head(conditions)
           rest == filterOutServerScopeVersion(Tail(conditions), apiServerID, storeID) IN
         IF c.apiServerID = apiServerID /\ c.storeID = storeID THEN rest
         ELSE <<c>> \o rest

GetServerScopeVersion(ssvs, apiServerID, storeID) ==
  \E i \in 1..Len(ssvs) : ssvs[i].apiServerID = apiServerID /\ ssvs[i].storeID = storeID

\* SetServerScopeVersion that only appends
SetServerScopeVersion_AppendOnly(ssvs, ssv) == Append(ssvs, ssv)

RemoveServerScopeVersion(ssvs, apiServerID, storeID) ==
  filterOutServerScopeVersion(ssvs, apiServerID, storeID)

SetServerScopeVersion(ssvs, ssv) ==
  IF GetServerScopeVersion(ssvs, ssv.apiServerID, ssv.storeID)
  THEN Append(filterOutServerScopeVersion(ssvs, ssv.apiServerID, ssv.storeID), ssv)
  ELSE Append(ssvs, ssv)

ServerScopeVersion(server, store, id, rv) ==
  [apiServerID |-> server, storeID |-> store, scopeID |-> id, resourceVersion |-> rv]

\* the loop over r.storeMapper.Stores(): one entry set per store
RECURSIVE SetAllServerScopeVersions(_, _, _, _)
SetAllServerScopeVersions(ssvs, stores, id, rvs) ==
  IF stores = {} THEN ssvs
  ELSE LET s == CHOOSE x \in stores : TRUE IN
         SetAllServerScopeVersions(
           SetServerScopeVersion(ssvs, ServerScopeVersion(ThisServer, s, id,
                                                          FormatUint(rvs[s]))),
           stores \ {s}, id, rvs)

-----------------------------------------------------------------------------
(* The work queue (client-go workqueue) *)

\* newSimpleStoreMapper(defaultStoreID, overrides, storageFactory) when no
\* store fails to be built: one store per store ID of storeConfigs
newSimpleStoreMapper(defaultStoreID, overrides) ==
  [ defaultStoreID |-> defaultStoreID,
    overrides      |-> overrides,   \* resource -> store ID
    stores         |-> {defaultStoreID} \cup
                         {overrides[r] : r \in DOMAIN overrides},
    call           |-> <<>>,        \* the last call and its arguments
    result         |-> <<>> ]       \* what the last call returned

\* the mapper of a server whose options name one store and no override
NoStoreMapper == newSimpleStoreMapper("store-x", <<>>)

\* a server that is not in process
IdleServer == [pc |-> "idle", def |-> NoDef, version |-> 0]

\* no server is in process; no version of the object is stored; every
\* store is at resource version 9
NoFleet ==
  [ version |-> 0,                               \* resourceVersion of the stored object
    storeRV |-> [s \in Stores |-> 9],            \* current resource version of each store
    servers |-> [srv \in Servers |-> IdleServer] ]

\* Run has been called and waits for its context to be done
Running ==
  [ ctxDone      |-> FALSE,   \* ctx.Done() of Run is closed
    returned     |-> FALSE,   \* Run has returned
    shuttingDown |-> FALSE ]  \* queue.ShutDown() has been called

QueueAdd(key) ==
  IF run.shuttingDown \/ key \in dirty THEN UNCHANGED <<queue, dirty>>
  ELSE /\ dirty' = dirty \cup {key}
       /\ queue' = IF key \in processing THEN queue ELSE Append(queue, key)

(* queue.Done(key), called from the worker that holds key *)
QueueDone(key) ==
  /\ processing' = processing \ {key}
  /\ queue' = IF key \in dirty THEN Append(queue, key) ELSE queue
  /\ UNCHANGED dirty

-----------------------------------------------------------------------------
(* The watch handler (scope_watch_handler.go) *)

minimumResourceVersionUpdateChannelSize == 10

\* the error values waitForMinimumResourceVersion may return
ErrDone == "done channel closed"
ErrNoInitial == "no initial resource version found"
ResourceExpired(initialRV, minimumRV) == <<"ResourceExpired", initialRV, minimumRV>>

\* the zero scope object
NoScope ==
  [ name       |-> <<>>,
    value      |-> <<>>,
    namespaces |-> <<>>,
    identifier |-> 0,
    current    |-> FALSE,
    err        |-> NoErr,
    expiredCh  |-> NilChan ]

\* no watch handler has been created
NoGate ==
  [ pc         |-> "none",    \* position of the handler's goroutine
    parent     |-> 0,         \* wh.parent (address of the parent Scope)
    done       |-> FALSE,     \* ctx.Done() is closed
    scope      |-> NoScope,   \* the embedded scope of the handler
    minCh      |-> <<>>,      \* wh.minimumResourceVersion: buffered values
    minClosed  |-> FALSE,     \* wh.minimumResourceVersion is closed
    initClosed |-> FALSE,     \* wh.initialResourceVersionChan is closed
    initialRV  |-> 0,         \* initialRV of waitForMinimumResourceVersion
    minimumRV  |-> 0,         \* minimumRV last received in the loop
    ret        |-> <<NoErr>>, \* what waitForMinimumResourceVersion returns
    sent       |-> 0,         \* SetMinimumResourceVersion calls so far
    call       |-> "none",    \* outcome of the last Set... call
    first      |-> "none" ]   \* history: which of the context's cancellation
                              \* and a minimum above initialRV came first

\* NewScopeWatchHandler(ctx, parent): the handler, whose scope copies the
\* parent's name, value, identifier and namespaces; its goroutine is created
NewScopeWatchHandler(addr, parent) ==
  [NoGate EXCEPT !.pc = "created",
                 !.parent = addr,
                 !.scope = [parent EXCEPT !.current = TRUE,
                                          !.err = NoErr,
                                          !.expiredCh = NilChan]]

\* line 106: initialRV < minimumRV
FloorViolated_OrEqual(initialRV, minimumRV) == initialRV <= minimumRV

FloorViolated(initialRV, minimumRV) == initialRV < minimumRV

\* some buffered minimum is above the initial resource version
AnyAbove(ch, initialRV) ==
  \E i \in 1..Len(ch) : FloorViolated(initialRV, ch[i])

-----------------------------------------------------------------------------
(* The scope filters of the handler chain (endpoints/filters/scopes.go) and
   the selector transformation of the read handlers
   (endpoints/handlers/scopes.go). Paths, field names and values are strings
   of characters. *)

HasPrefix(s, prefix) ==
  Len(s) >= Len(prefix) /\ SubSeq(s, 1, Len(prefix)) = prefix

RECURSIVE SplitN(_, _, _)
\* strings.SplitN(s, sep, n) for a one-character sep and n >= 1
SplitN(s, sep, n) ==
  LET i == IndexOf(s, sep, 1) IN
    IF n = 1 \/ i = 0 THEN <<s>>
    ELSE <<SubSeq(s, 1, i - 1)>> \o SplitN(SubSeq(s, i + 1, Len(s)), sep, n - 1)

\* strings.Cut(s, sep): before, after, found
Cut(s, sep) ==
  LET i == IndexOf(s, sep, 1) IN
    IF i = 0 THEN <<s, <<>>, FALSE>>
    ELSE <<SubSeq(s, 1, i - 1), SubSeq(s, i + 1, Len(s)), TRUE>>

ScopesPathPrefix == <<"/", "s", "c", "o", "p", "e", "s", "/">>

ScopesFieldPrefix ==
  <<"s", "c", "o", "p", "e", "s", ".", "k", "8", "s", ".", "i", "o">>

\* parseScope that returns urlPath[4] as the new path, without the "/" put
\* back in front of it
parseScope_RestWithoutSlash(path) ==
  IF ~HasPrefix(path, ScopesPathPrefix)
  THEN <<<<>>, <<>>, path, FALSE, "">>
  ELSE LET urlPath == SplitN(path, "/", 5) IN
         IF Len(urlPath) # 5
         THEN <<<<>>, <<>>, <<>>, TRUE, "invalid scoped request path">>
         ELSE IF urlPath[3] = <<>>
         THEN <<<<>>, <<>>, <<>>, TRUE, "no scope name specified">>
         ELSE IF urlPath[4] = <<>>
         THEN <<<<>>, <<>>, <<>>, TRUE, "no scope value specified">>
         ELSE <<urlPath[3], urlPath[4], urlPath[5], TRUE, "">>

\* parseScope without the check of the scope value (lines 114-116)
parseScope_NoValueCheck(path) ==
  IF ~HasPrefix(path, ScopesPathPrefix)
  THEN <<<<>>, <<>>, path, FALSE, "">>
  ELSE LET urlPath == SplitN(path, "/", 5) IN
         IF Len(urlPath) # 5
         THEN <<<<>>, <<>>, <<>>, TRUE, "invalid scoped request path">>
         ELSE IF urlPath[3] = <<>>
         THEN <<<<>>, <<>>, <<>>, TRUE, "no scope name specified">>
         ELSE <<urlPath[3], urlPath[4], <<"/">> \o urlPath[5], TRUE, "">>

\* parseScope(req): name, value, new path, ok, err ("" for nil)
parseScope(path) ==
  IF ~HasPrefix(path, ScopesPathPrefix)
  THEN <<<<>>, <<>>, path, FALSE, "">>
  ELSE LET urlPath == SplitN(path, "/", 5) IN
         IF Len(urlPath) # 5
         THEN <<<<>>, <<>>, <<>>, TRUE, "invalid scoped request path">>
         ELSE IF urlPath[3] = <<>>
         THEN <<<<>>, <<>>, <<>>, TRUE, "no scope name specified">>
         ELSE IF urlPath[4] = <<>>
         THEN <<<<>>, <<>>, <<>>, TRUE, "no scope value specified">>
         ELSE <<urlPath[3], urlPath[4], <<"/">> \o urlPath[5], TRUE, "">>

\* a term of a field selector names a scope: its field is scopes.k8s.io/<name>
IsScopeTerm(term) ==
  LET c == Cut(term.field, "/") IN c[3] /\ c[1] = ScopesFieldPrefix

RECURSIVE SelectScopeTerms(_)
\* the terms of a field selector that name a scope, in order
SelectScopeTerms(fieldSelector) ==
  IF fieldSelector = <<>> THEN <<>>
  ELSE (IF IsScopeTerm(Head(fieldSelector)) THEN <<Head(fieldSelector)>> ELSE <<>>)
         \o SelectScopeTerms(Tail(fieldSelector))

RECURSIVE RejectScopeTerms(_)
\* the terms the transformation keeps: those that do not name a scope
RejectScopeTerms(fieldSelector) ==
  IF fieldSelector = <<>> THEN <<>>
  ELSE (IF IsScopeTerm(Head(fieldSelector)) THEN <<>> ELSE <<Head(fieldSelector)>>)
         \o RejectScopeTerms(Tail(fieldSelector))

\* a scope term met while scopeName or scopeValue is set from the scope term
\* before it makes the transformation fail
TransformFails(fieldSelector) ==
  LET ts == SelectScopeTerms(fieldSelector) IN
    \E j \in 2..Len(ts) :
      Cut(ts[j - 1].field, "/")[2] # <<>> \/ ts[j - 1].value # <<>>

\* scopeName and scopeValue after the transformation
TransformedScopeName(fieldSelector) ==
  LET ts == SelectScopeTerms(fieldSelector) IN
    IF ts = <<>> THEN <<>> ELSE Cut(ts[Len(ts)].field, "/")[2]

TransformedScopeValue(fieldSelector) ==
  LET ts == SelectScopeTerms(fieldSelector) IN
    IF ts = <<>> THEN <<>> ELSE ts[Len(ts)].value

\* the places a request may name a scope in
ScopeSources(path, query, fieldSelector) ==
  (IF HasPrefix(path, ScopesPathPrefix) THEN {"path"} ELSE {})
    \cup (IF \E i \in 1..Len(query) : query[i][1] = "scope" THEN {"query"} ELSE {})
    \cup (IF SelectScopeTerms(fieldSelector) # <<>> THEN {"field"} ELSE {})

\* the scope controller before Run: an empty work queue, an idle worker
NoController ==
  [ queue      |-> <<>>,    \* work queue: keys waiting, in order
    dirty      |-> {},      \* work queue: keys added and not yet handed out
    processing |-> {},      \* work queue: keys handed out and not yet Done
    pc         |-> "idle",  \* position of the worker
    key        |-> <<>>,    \* the key the worker took from the queue
    last       |-> "none" ] \* how the last process call ended

NoRequest ==
  [ pc            |-> "none",  \* the handler the request is at
    path          |-> <<>>,    \* req.URL.Path
    resource      |-> "",      \* the resource the request reads
    resourceVersion |-> <<>>,  \* metadata.resourceVersion of the object of a write
    receivedRV    |-> <<>>,    \* history: the resourceVersion the write arrived with
    query         |-> <<>>,    \* req.URL.Query(), as pairs
    fieldSelector |-> <<>>,    \* the field selector of the list options
    labelSelector |-> <<>>,    \* the label selector handed to storage
    ctx           |-> <<>>,    \* the value under scopeKey in the context
    minimumRV     |-> 0,       \* the floor the transformation returned
    response      |-> "none",  \* the error the request was answered with
    by            |-> "none",  \* the handler that answered
    sources       |-> {} ]     \* history: the scope sources it arrived with

-----------------------------------------------------------------------------
Init ==
  /\ lister = [k \in Keys |-> NoDef]
  /\ nextID = 0
  /\ queue = <<>>
  /\ dirty = {}
  /\ processing = {}
  /\ scopes = <<>>
  /\ heap = <<>>
  /\ alive = TRUE
  /\ pc = "idle"
  /\ wkey = <<>>
  /\ wdef = NoDef
  /\ wexisting = 0
  /\ wnew = 0
  /\ lastResult = "none"
  /\ resolved = <<>>
  /\ held = 0
  /\ observed = FALSE
  /\ gate = NoGate
  /\ request = NoRequest
  /\ controller = NoController
  /\ run = Running
  /\ storeMapper = NoStoreMapper
  /\ fleet = NoFleet

-----------------------------------------------------------------------------
(* The environment: writes to ScopeDefinition objects, as the informer     *)
(* delivers them (the cache is updated, then the event handler enqueues).  *)

IsDef(d) == d.state = "present"

\* enqueue(obj): the key of a ScopeDefinition is its name
enqueue(key) == QueueAdd(key)

\* A ScopeDefinition is created; its status is still empty. AddFunc enqueues.
CreateDefinition(k) ==
  /\ alive
  /\ lister[k] = NoDef
  /\ lister' = [lister EXCEPT ![k] = Definition(0, <<>>, <<>>)]
  /\ enqueue(k)
  /\ UNCHANGED <<fleet, storeMapper, run, controller, request, gate, nextID, processing, scopes, heap, alive, pc, wkey, wdef,
                 wexisting, wnew, lastResult, resolved, held, observed>>

\* The scope controller writes status.namespaces; the admission plugin
\* assigns the scopeID. UpdateFunc enqueues.
UpdateNamespaces(k, ns) ==
  /\ alive
  /\ IsDef(lister[k])
  /\ lister[k].namespaces # ns
  /\ nextID < MaxGen
  /\ nextID' = nextID + 1
  /\ lister' = [lister EXCEPT ![k] =
                  Definition(AdmitScopeID(lister[k],
                                          [lister[k] EXCEPT !.namespaces = ns],
                                          nextID + 1), ns,
                             lister[k].serverScopeVersions)]
  /\ enqueue(k)
  /\ UNCHANGED <<fleet, storeMapper, run, controller, request, gate, processing, scopes, heap, alive, pc, wkey, wdef,
                 wexisting, wnew, lastResult, resolved, held, observed>>

\* A ScopeDefinition is deleted. DeleteFunc is nil: nothing is enqueued.
DeleteDefinition(k) ==
  /\ alive
  /\ IsDef(lister[k])
  /\ lister' = [lister EXCEPT ![k] = Gone]
  /\ UNCHANGED <<fleet, storeMapper, run, controller, request, gate, nextID, queue, dirty, processing, scopes, heap, alive, pc,
                 wkey, wdef, wexisting, wnew, lastResult, resolved, held,
                 observed>>

-----------------------------------------------------------------------------
(* The reconciliation worker: processNextWorkItem and process *)

\* key, quit := r.queue.Get()
Get ==
  /\ alive
  /\ pc = "idle"
  /\ queue # <<>>
  /\ wkey' = Head(queue)
  /\ queue' = Tail(queue)
  /\ dirty' = dirty \ {Head(queue)}
  /\ processing' = processing \cup {Head(queue)}
  /\ pc' = "process"
  /\ UNCHANGED <<fleet, storeMapper, run, controller, request, gate, lister, nextID, scopes, heap, alive, wdef, wexisting, wnew,
                 lastResult, resolved, held, observed>>

\* process returned nil: queue.Forget(key), then the deferred queue.Done(key)
ReturnNil ==
  /\ QueueDone(wkey)
  /\ lastResult' = "nil"
  /\ pc' = "idle"
  /\ wkey' = <<>>
  /\ wdef' = NoDef
  /\ wexisting' = 0
  /\ wnew' = 0

\* process that removes the selector's entry when the definition is gone
ProcessNotFound_Clears ==
  /\ alive
  /\ pc = "process"
  /\ ~IsDef(lister[wkey])
  /\ scopes' = clearScope(scopes, ScopeNameOf(wkey), ScopeValueOf(wkey))
  /\ ReturnNil
  /\ UNCHANGED <<fleet, storeMapper, run, controller, request, gate, lister, nextID,
                 heap, alive, resolved, held, observed>>

\* lister.Get(key) is NotFound: return nil
ProcessNotFound ==
  /\ alive
  /\ pc = "process"
  /\ ~IsDef(lister[wkey])
  /\ ReturnNil
  /\ UNCHANGED <<fleet, storeMapper, run, controller, request, gate, lister, nextID, scopes, heap, alive,
                 resolved, held, observed>>

\* strings.SplitN(def.Name, ":", 2) has two parts
HasSeparator(key) == Len(SplitN2(key, ":")) = 2

\* the name holds no ":": parts has one element and parts[1] (line 161) is
\* an index out of range, a run-time panic
ProcessPanics ==
  /\ alive
  /\ pc = "process"
  /\ IsDef(lister[wkey])
  /\ ~HasSeparator(wkey)
  /\ pc' = "panic"
  /\ UNCHANGED <<fleet, storeMapper, run, controller, request, gate, lister, nextID,
                 queue, dirty, processing, scopes, heap, alive, wkey, wdef,
                 wexisting, wnew, lastResult, resolved, held, observed>>

\* no entry for the scope name, or none for the scope value: writeScope, return nil
ProcessInstall ==
  /\ alive
  /\ pc = "process"
  /\ IsDef(lister[wkey])
  /\ HasSeparator(wkey)
  /\ ~HasValue(scopes, ScopeNameOf(wkey), ScopeValueOf(wkey))
  /\ heap' = Append(heap, buildExpiringScope(lister[wkey], wkey))
  /\ scopes' = writeScope(scopes, ScopeNameOf(wkey), ScopeValueOf(wkey), Len(heap) + 1)
  /\ ReturnNil
  /\ UNCHANGED <<fleet, storeMapper, run, controller, request, gate, lister, nextID, alive, resolved, held,
                 observed>>

\* process that installs the definition again although the identifier is
\* the one of the existing scope
ProcessUnchanged_Reinstalls ==
  /\ alive
  /\ pc = "process"
  /\ IsDef(lister[wkey])
  /\ HasSeparator(wkey)
  /\ HasValue(scopes, ScopeNameOf(wkey), ScopeValueOf(wkey))
  /\ heap[scopes[ScopeNameOf(wkey)][ScopeValueOf(wkey)]].identifier = lister[wkey].scopeID
  /\ heap' = Append(heap, buildExpiringScope(lister[wkey], wkey))
  /\ scopes' = writeScope(scopes, ScopeNameOf(wkey), ScopeValueOf(wkey), Len(heap) + 1)
  /\ ReturnNil
  /\ UNCHANGED <<fleet, storeMapper, run, controller, request, gate, lister, nextID, alive, resolved, held,
                 observed>>

\* process that finds the identifier unchanged and has the key queued again
ProcessUnchanged_Requeues ==
  /\ alive
  /\ pc = "process"
  /\ IsDef(lister[wkey])
  /\ HasSeparator(wkey)
  /\ HasValue(scopes, ScopeNameOf(wkey), ScopeValueOf(wkey))
  /\ heap[scopes[ScopeNameOf(wkey)][ScopeValueOf(wkey)]].identifier = lister[wkey].scopeID
  /\ processing' = processing \ {wkey}
  /\ dirty' = dirty \cup {wkey}
  /\ queue' = IF wkey \in dirty THEN queue ELSE Append(queue, wkey)
  /\ lastResult' = "error"
  /\ pc' = "idle"
  /\ wkey' = <<>>
  /\ wdef' = NoDef
  /\ wexisting' = 0
  /\ wnew' = 0
  /\ UNCHANGED <<fleet, storeMapper, run, controller, request, gate, lister, nextID, scopes, heap, alive,
                 resolved, held, observed>>

\* existingScope.Identifier() == def.Status.ScopeID: return nil
ProcessUnchanged ==
  /\ alive
  /\ pc = "process"
  /\ IsDef(lister[wkey])
  /\ HasSeparator(wkey)
  /\ HasValue(scopes, ScopeNameOf(wkey), ScopeValueOf(wkey))
  /\ heap[scopes[ScopeNameOf(wkey)][ScopeValueOf(wkey)]].identifier = lister[wkey].scopeID
  /\ ReturnNil
  /\ UNCHANGED <<fleet, storeMapper, run, controller, request, gate, lister, nextID, scopes, heap, alive,
                 resolved, held, observed>>

\* the identifier changed: newScope := r.writeScope(scopeName, scopeValue, def)
ProcessPublish ==
  /\ alive
  /\ pc = "process"
  /\ IsDef(lister[wkey])
  /\ HasSeparator(wkey)
  /\ HasValue(scopes, ScopeNameOf(wkey), ScopeValueOf(wkey))
  /\ heap[scopes[ScopeNameOf(wkey)][ScopeValueOf(wkey)]].identifier # lister[wkey].scopeID
  /\ wdef' = lister[wkey]
  /\ wexisting' = scopes[ScopeNameOf(wkey)][ScopeValueOf(wkey)]
  /\ wnew' = Len(heap) + 1
  /\ heap' = Append(heap, buildExpiringScope(lister[wkey], wkey))
  /\ scopes' = writeScope(scopes, ScopeNameOf(wkey), ScopeValueOf(wkey), Len(heap) + 1)
  /\ pc' = "expire"
  /\ UNCHANGED <<fleet, storeMapper, run, controller, request, gate, lister, nextID, queue, dirty, processing, alive, wkey,
                 lastResult, resolved, held, observed>>

\* process that expires the scope it has just written, not the one it replaced
ProcessExpire_ExpiresNew ==
  /\ alive
  /\ pc = "expire"
  /\ heap' = [heap EXCEPT ![wnew] = expire(@, ErrChanged)]
  /\ pc' = IF expirePanics(heap[wnew]) THEN "panic" ELSE "versions"
  /\ UNCHANGED <<fleet, storeMapper, run, controller, request, gate, lister, nextID, queue, dirty, processing, scopes, alive,
                 wkey, wdef, wexisting, wnew, lastResult, resolved, held,
                 observed>>

\* existingScope.expire(errors.New("scope configuration changed"))
ProcessExpire ==
  /\ alive
  /\ pc = "expire"
  /\ heap' = [heap EXCEPT ![wexisting] = expire(@, ErrChanged)]
  /\ pc' = IF expirePanics(heap[wexisting]) THEN "panic" ELSE "versions"
  /\ UNCHANGED <<fleet, storeMapper, run, controller, request, gate, lister, nextID, queue, dirty, processing, scopes, alive,
                 wkey, wdef, wexisting, wnew, lastResult, resolved, held,
                 observed>>

\* The panic unwinds processNextWorkItem (the deferred queue.Done(key) runs)
\* and runWorker; the crash handler around the worker re-panics and the
\* process exits.
WorkerCrashExit ==
  /\ alive
  /\ pc = "panic"
  /\ QueueDone(wkey)
  /\ lastResult' = "panic"
  /\ wkey' = <<>>
  /\ wdef' = NoDef
  /\ wexisting' = 0
  /\ wnew' = 0
  /\ alive' = FALSE
  /\ pc' = "dead"
  /\ UNCHANGED <<fleet, storeMapper, run, controller, request, gate, lister, nextID, scopes, heap, resolved, held, observed>>

\* The crash handler is configured to log only: wait.UntilWithContext calls
\* runWorker again after its period.
WorkerCrashRestart ==
  /\ alive
  /\ pc = "panic"
  /\ QueueDone(wkey)
  /\ lastResult' = "panic"
  /\ wkey' = <<>>
  /\ wdef' = NoDef
  /\ wexisting' = 0
  /\ wnew' = 0
  /\ pc' = "idle"
  /\ UNCHANGED <<fleet, storeMapper, run, controller, request, gate, lister, nextID, scopes, heap, alive, resolved, held, observed>>

-----------------------------------------------------------------------------
(* process after the old scope was expired (lines 189-217). The worker is *)
(* at "versions" only if expire returned; NeverPastExpire below says it    *)
(* never is, so these steps are not part of Next.                          *)

\* every CurrentResourceVersion call succeeds: the entries are set in the copy of def
ProcessVersions ==
  /\ alive
  /\ pc = "versions"
  /\ \E rvs \in [Stores -> ResourceVersions] :
       wdef' = [wdef EXCEPT !.serverScopeVersions =
                  SetAllServerScopeVersions(@, Stores, heap[wnew].identifier, rvs)]
  /\ pc' = "update"
  /\ UNCHANGED <<fleet, storeMapper, run, controller, request, gate, lister, nextID, queue, dirty, processing, scopes, heap,
                 alive, wkey, wexisting, wnew, lastResult, resolved, held,
                 observed>>

\* a CurrentResourceVersion call or UpdateStatus fails: writeScope(nil),
\* newScope.expire("internal error"), return the error; processNextWorkItem
\* then calls queue.AddRateLimited(key) and the deferred queue.Done(key)
ProcessRollback ==
  /\ alive
  /\ pc \in {"versions", "update"}
  /\ scopes' = clearScope(scopes, ScopeNameOf(wkey), ScopeValueOf(wkey))
  /\ heap' = [heap EXCEPT ![wnew] = expire(@, ErrInternal)]
  /\ IF expirePanics(heap[wnew])
     THEN /\ pc' = "panic"
          /\ UNCHANGED <<queue, dirty, processing, wkey, wdef, wexisting,
                         wnew, lastResult>>
     ELSE /\ processing' = processing \ {wkey}
          /\ dirty' = dirty \cup {wkey}
          /\ queue' = Append(queue, wkey)
          /\ lastResult' = "error"
          /\ pc' = "idle"
          /\ wkey' = <<>>
          /\ wdef' = NoDef
          /\ wexisting' = 0
          /\ wnew' = 0
  /\ UNCHANGED <<fleet, storeMapper, run, controller, request, gate, lister, nextID, alive, resolved, held, observed>>

\* UpdateStatus succeeds: the status is persisted, the informer delivers
\* the update (UpdateFunc enqueues), process returns nil
ProcessUpdateStatus ==
  /\ alive
  /\ pc = "update"
  /\ \E mrvs \in buildMinimumResourceVersions(wdef.serverScopeVersions) :
       lister' = [lister EXCEPT ![wkey] =
                    [wdef EXCEPT !.minimumResourceVersions = mrvs]]
  /\ processing' = processing \ {wkey}
  /\ dirty' = dirty \cup {wkey}
  /\ queue' = Append(queue, wkey)
  /\ lastResult' = "nil"
  /\ pc' = "idle"
  /\ wkey' = <<>>
  /\ wdef' = NoDef
  /\ wexisting' = 0
  /\ wnew' = 0
  /\ UNCHANGED <<fleet, storeMapper, run, controller, request, gate, nextID, scopes, heap, alive, resolved, held, observed>>

\* expire never returns to process: the worker is never past line 187
NeverPastExpire ==
  /\ pc \notin {"versions", "update"}
  /\ ~ENABLED (ProcessVersions \/ ProcessRollback \/ ProcessUpdateStatus)

-----------------------------------------------------------------------------
(* Callers of the resolver *)

\* Resolve(ctx, name, value) succeeds and the caller keeps the Scope. The
\* caller asks for one selector throughout (the one of its first call).
Resolve(sel) ==
  /\ alive
  /\ held # 0 => sel = <<heap[held].name, heap[held].value>>
  /\ readScope(scopes, sel[1], sel[2]) # 0
  /\ LET a == readScope(scopes, sel[1], sel[2])
         id == heap[a].identifier IN
       /\ held' = a
       /\ observed' = FALSE
       /\ resolved' =
             IF resolved # <<>> /\ resolved[Len(resolved)] = id
             THEN resolved ELSE Append(resolved, id)
  /\ UNCHANGED <<fleet, storeMapper, run, controller, request, gate, lister, nextID, queue, dirty, processing, scopes, heap,
                 alive, pc, wkey, wdef, wexisting, wnew, lastResult>>

\* A caller that holds a Scope finds it expired: its Expired() channel is
\* closed, or its Err() is set.
ObserveExpired ==
  /\ alive
  /\ held # 0
  /\ ~observed
  /\ Expired(heap[held]) \/ Err(heap[held]) # NoErr
  /\ observed' = TRUE
  /\ UNCHANGED <<fleet, storeMapper, run, controller, request, gate, lister, nextID, queue, dirty, processing, scopes, heap,
                 alive, pc, wkey, wdef, wexisting, wnew, lastResult, resolved,
                 held>>

-----------------------------------------------------------------------------
-----------------------------------------------------------------------------
(* A watch: the caller that holds a Scope creates a watch handler on it *)

\* the most SetMinimumResourceVersion calls made on one handler
MaxUpdates == 2

NewGate ==
  /\ alive
  /\ gate.pc = "none"
  /\ held # 0
  /\ gate' = NewScopeWatchHandler(held, heap[held])
  /\ UNCHANGED <<fleet, storeMapper, run, controller, request, lister, nextID, queue, dirty, processing, scopes, heap, alive,
                 pc, wkey, wdef, wexisting, wnew, lastResult, resolved, held,
                 observed>>

\* the request context of the watch is cancelled
CancelContext ==
  /\ alive
  /\ gate.pc # "none"
  /\ ~gate.done
  /\ gate' = [gate EXCEPT !.done = TRUE,
                          !.first = IF @ = "none" THEN "done" ELSE @]
  /\ UNCHANGED <<fleet, storeMapper, run, controller, request, lister, nextID, queue, dirty, processing, scopes, heap, alive,
                 pc, wkey, wdef, wexisting, wnew, lastResult, resolved, held,
                 observed>>

\* go wh.waitForMinimumResourceVersion(ctx.Done()): the goroutine registers
\* its two deferred calls and blocks in the select of
\* readInitialResourceVersion
GateStart ==
  /\ alive
  /\ gate.pc = "created"
  /\ gate' = [gate EXCEPT !.pc = "initial"]
  /\ UNCHANGED <<fleet, storeMapper, run, controller, request, lister, nextID, queue, dirty, processing, scopes, heap, alive,
                 pc, wkey, wdef, wexisting, wnew, lastResult, resolved, held,
                 observed>>

\* SetInitialResourceVersion(rv). The function handed to sync.OnceValue
\* runs at every call. A send on the closed channel panics; a send meets
\* the receive of readInitialResourceVersion, which returns rv and closes
\* the channel; with no receiver the grace period passes and the call
\* returns an error.
SetInitialResourceVersion(rv) ==
  /\ alive
  /\ gate.pc # "none"
  /\ gate' =
       IF gate.initClosed THEN [gate EXCEPT !.call = "panic"]
       ELSE IF gate.pc = "initial"
       THEN [gate EXCEPT !.initialRV = rv,
                         !.initClosed = TRUE,
                         !.pc = "running",
                         !.call = "nil",
                         !.first = IF @ = "none" /\ AnyAbove(gate.minCh, rv)
                                   THEN "floor" ELSE @]
       ELSE [gate EXCEPT !.call = "error"]
  /\ UNCHANGED <<fleet, storeMapper, run, controller, request, lister, nextID, queue, dirty, processing, scopes, heap, alive,
                 pc, wkey, wdef, wexisting, wnew, lastResult, resolved, held,
                 observed>>

\* SetMinimumResourceVersion(rv): a non-blocking send on the buffered
\* channel; a send on the closed channel panics
SetMinimumResourceVersion(rv) ==
  /\ alive
  /\ gate.pc # "none"
  /\ gate.sent < MaxUpdates
  /\ gate' =
       IF gate.minClosed
       THEN [gate EXCEPT !.call = "panic", !.sent = @ + 1]
       ELSE IF Len(gate.minCh) < minimumResourceVersionUpdateChannelSize
       THEN [gate EXCEPT !.minCh = Append(@, rv), !.call = "nil", !.sent = @ + 1,
                         !.first = IF @ = "none" /\ gate.pc = "running"
                                        /\ FloorViolated(gate.initialRV, rv)
                                   THEN "floor" ELSE @]
       ELSE [gate EXCEPT !.call = "error", !.sent = @ + 1]
  /\ UNCHANGED <<fleet, storeMapper, run, controller, request, lister, nextID, queue, dirty, processing, scopes, heap, alive,
                 pc, wkey, wdef, wexisting, wnew, lastResult, resolved, held,
                 observed>>

\* the cases of the select of readInitialResourceVersion that are ready,
\* other than the receive of the initial resource version
ReadyInitial ==
  (IF gate.done THEN {"done"} ELSE {})
    \cup (IF Expired(heap[gate.parent]) THEN {"parent"} ELSE {})

\* readInitialResourceVersion returns an error: the deferred close of the
\* channel runs, and waitForMinimumResourceVersion returns that error
GateSelectInitial ==
  /\ alive
  /\ gate.pc = "initial"
  /\ \E c \in ReadyInitial :
       gate' = [gate EXCEPT
                  !.ret = IF c = "done" THEN <<ErrDone>>
                          ELSE <<Err(heap[gate.parent])>>,
                  !.initClosed = TRUE,
                  !.pc = "deferred"]
  /\ UNCHANGED <<fleet, storeMapper, run, controller, request, lister, nextID, queue, dirty, processing, scopes, heap, alive,
                 pc, wkey, wdef, wexisting, wnew, lastResult, resolved, held,
                 observed>>

\* the cases of the select in the loop that are ready
ReadyRunning ==
  (IF gate.done THEN {"done"} ELSE {})
    \cup (IF Expired(heap[gate.parent]) THEN {"parent"} ELSE {})
    \cup (IF gate.minCh # <<>> THEN {"minimum"} ELSE {})

\* one round of the loop of waitForMinimumResourceVersion
GateSelectRunning ==
  /\ alive
  /\ gate.pc = "running"
  /\ \E c \in ReadyRunning :
       gate' =
         IF c = "done" THEN [gate EXCEPT !.ret = <<NoErr>>, !.pc = "deferred"]
         ELSE IF c = "parent"
         THEN [gate EXCEPT !.ret = <<Err(heap[gate.parent])>>, !.pc = "deferred"]
         ELSE LET minimumRV == Head(gate.minCh) IN
                IF FloorViolated(gate.initialRV, minimumRV)
                THEN [gate EXCEPT !.minCh = Tail(@),
                                  !.minimumRV = minimumRV,
                                  !.ret = ResourceExpired(gate.initialRV, minimumRV),
                                  !.pc = "deferred"]
                ELSE [gate EXCEPT !.minCh = Tail(@), !.minimumRV = minimumRV]
  /\ UNCHANGED <<fleet, storeMapper, run, controller, request, lister, nextID, queue, dirty, processing, scopes, heap, alive,
                 pc, wkey, wdef, wexisting, wnew, lastResult, resolved, held,
                 observed>>

\* the deferred calls of waitForMinimumResourceVersion, last registered
\* first: the close of wh.minimumResourceVersion, then wh.expire(err) with
\* the value err had when the defer statement ran, which is nil
GateDeferred ==
  /\ alive
  /\ gate.pc = "deferred"
  /\ gate' = [gate EXCEPT !.minClosed = TRUE,
                          !.scope = expire(@, NoErr),
                          !.pc = IF expirePanics(gate.scope) THEN "panic"
                                 ELSE "exited"]
  /\ UNCHANGED <<fleet, storeMapper, run, controller, request, lister, nextID, queue, dirty, processing, scopes, heap, alive,
                 pc, wkey, wdef, wexisting, wnew, lastResult, resolved, held,
                 observed>>

\* a panic that leaves a goroutine nobody recovers ends the process
GateCrash ==
  /\ alive
  /\ gate.pc = "panic"
  /\ alive' = FALSE
  /\ UNCHANGED <<fleet, storeMapper, run, controller, request, gate, lister, nextID, queue, dirty, processing, scopes, heap,
                 pc, wkey, wdef, wexisting, wnew, lastResult, resolved, held,
                 observed>>

Next ==
  \/ \E k \in Keys : CreateDefinition(k)
  \/ \E k \in Keys, ns \in NamespaceLists : UpdateNamespaces(k, ns)
  \/ \E k \in Keys : DeleteDefinition(k)
  \/ Get
  \/ ProcessNotFound
  \/ ProcessInstall
  \/ ProcessUnchanged
  \/ ProcessPublish
  \/ ProcessExpire
  \/ WorkerCrashExit
  \/ WorkerCrashRestart
  \/ \E sel \in Selectors : Resolve(sel)
  \/ ObserveExpired

Spec == Init /\ [][Next]_vars

\* A watch on the selector of w:a: the definition w:a was created and
\* reconciled; w:b was created, deleted and reconciled.
GateInit ==
  /\ lister = [k \in Keys |->
                IF k = KeyWA THEN Definition(0, <<>>, <<>>) ELSE Gone]
  /\ nextID = 0
  /\ queue = <<>>
  /\ dirty = {}
  /\ processing = {}
  /\ heap = <<buildExpiringScope(Definition(0, <<>>, <<>>), KeyWA)>>
  /\ scopes = writeScope(<<>>, ScopeNameOf(KeyWA), ScopeValueOf(KeyWA), 1)
  /\ alive = TRUE
  /\ pc = "idle"
  /\ wkey = <<>>
  /\ wdef = NoDef
  /\ wexisting = 0
  /\ wnew = 0
  /\ lastResult = "nil"
  /\ resolved = <<>>
  /\ held = 0
  /\ observed = FALSE
  /\ gate = NoGate
  /\ request = NoRequest
  /\ controller = NoController
  /\ run = Running
  /\ storeMapper = NoStoreMapper
  /\ fleet = NoFleet

GateNext ==
  \/ \E k \in Keys, ns \in NamespaceLists : UpdateNamespaces(k, ns)
  \/ \E k \in Keys : DeleteDefinition(k)
  \/ Get
  \/ ProcessNotFound
  \/ ProcessUnchanged
  \/ ProcessPublish
  \/ ProcessExpire
  \/ WorkerCrashExit
  \/ WorkerCrashRestart
  \/ \E sel \in Selectors : Resolve(sel)
  \/ ObserveExpired
  \/ NewGate
  \/ CancelContext
  \/ GateStart
  \/ \E rv \in ResourceVersions : SetInitialResourceVersion(rv)
  \/ \E rv \in ResourceVersions : SetMinimumResourceVersion(rv)
  \/ GateSelectInitial
  \/ GateSelectRunning
  \/ GateDeferred
  \/ GateCrash

GateSpec == GateInit /\ [][GateNext]_vars

-----------------------------------------------------------------------------
(* Properties *)

Addrs == 1..Len(heap)

\* the address Resolve returns for the selector of scope object a (0: an error)
Serving(tbl, h, a) == readScope(tbl, h[a].name, h[a].value)

\* expire has acted on a scope object: it is no longer current
HasExpired(s) == ~s.current

\* C1: whenever expire acts on a LiveMapping (it stops being current, its
\* reason is set and its channel is closed), the selector table — what
\* Resolve reads — already holds, since before that step, another, later
\* allocated and still current mapping for the same selector.
C1_PublishBeforeExpire ==
  [][\A a \in Addrs :
       (~HasExpired(heap[a]) /\ HasExpired(heap'[a])) =>
          LET b == Serving(scopes, heap, a) IN
            /\ b # 0 /\ b > a
            /\ ~HasExpired(heap[b])
            /\ Serving(scopes', heap', a) = b]_vars

\* C1 witness: a mapping has been expired and a newer one is served
C1_Witness ==
  \E a \in Addrs : HasExpired(heap[a]) /\ Serving(scopes, heap, a) > a

C3_MonotoneGenerations ==
  \A i, j \in 1..Len(resolved) : i < j => resolved[i] < resolved[j]

\* C3 witness: a caller has been given three generations in turn
C3_Witness == Len(resolved) >= 3

\* the table entry for key is a current mapping carrying def's scopeID and namespaces
ServesDefinition(tbl, h, key, def) ==
  LET a == readScope(tbl, ScopeNameOf(key), ScopeValueOf(key)) IN
    /\ a # 0
    /\ h[a].current
    /\ h[a].identifier = def.scopeID
    /\ h[a].namespaces = def.namespaces

Recorded(k) ==
  LET a == readScope(scopes, ScopeNameOf(k), ScopeValueOf(k)) IN
    /\ a # 0
    /\ IsDef(lister[k])
    /\ \A s \in Stores :
         \E i \in 1..Len(lister[k].serverScopeVersions) :
           LET e == lister[k].serverScopeVersions[i] IN
             /\ e.apiServerID = ThisServer
             /\ e.storeID = s
             /\ e.scopeID = heap[a].identifier

\* this server has moved the selector of key k to a newer generation: it
\* serves a mapping that replaced one it expired
Transitioned(k) ==
  \E a \in Addrs :
    /\ <<heap[a].name, heap[a].value>> = <<ScopeNameOf(k), ScopeValueOf(k)>>
    /\ HasExpired(heap[a])
    /\ Serving(scopes, heap, a) > a

\* C5: once the reconcile of a generation transition has ended, the
\* persisted status.serverScopeVersions holds, for every store, an entry
\* (this server, store, new scopeID, resource version). Violated: the
\* reconcile ends in the panic of expire before any resource version is
\* read or any status is written.
C5_ProgressRecorded ==
  \A k \in Keys :
    (pc \in {"idle", "dead"} /\ Transitioned(k) /\ IsDef(lister[k])) => Recorded(k)

\* C6: progress is eventually persisted: whenever this server has moved a
\* selector to a newer generation, its entries for the generation it serves
\* eventually are in the persisted status (unless the object is deleted).
\* Violated under fair scheduling of the worker: no retry ever writes them.
C6_ProgressEventuallyPersisted ==
  \A k \in Keys :
    (Transitioned(k) /\ IsDef(lister[k])) ~> (Recorded(k) \/ ~IsDef(lister[k]))

FairSpec ==
  /\ Spec
  /\ WF_vars(Get)
  /\ WF_vars(ProcessNotFound \/ ProcessInstall \/ ProcessUnchanged \/ ProcessPublish)
  /\ WF_vars(ProcessExpire)
  /\ WF_vars(WorkerCrashExit \/ WorkerCrashRestart)

-----------------------------------------------------------------------------
(* The watch handler *)

\* the state GateSpec starts in is one the resolver reaches
GateInitReached == GateInit

\* the goroutine of the handler has left waitForMinimumResourceVersion
GateTerminated == gate.pc \in {"panic", "exited"}

\* C8: once the handler has terminated, its Err() is the error
\* waitForMinimumResourceVersion returned: the parent's Err() when the
\* parent expired, ResourceExpired with the initial and the minimum
\* resource version when the floor was violated. Violated: the deferred
\* expire was handed the nil err of the time the defer statement ran.
C8_ErrReportsCause ==
  (GateTerminated /\ gate.ret \notin {<<NoErr>>, <<ErrDone>>}) =>
     <<Err(gate.scope)>> = gate.ret

C10_GateEventuallyFires ==
  (gate.pc # "none" /\ (gate.done \/ HasExpired(heap[gate.parent])))
     ~> ((Expired(gate.scope) /\ gate.pc = "exited") \/ pc = "dead")

\* the worker and the handler's goroutine keep running while they have a
\* step to take
GateFairSpec ==
  /\ GateSpec
  /\ WF_vars(Get)
  /\ WF_vars(ProcessNotFound \/ ProcessUnchanged \/ ProcessPublish)
  /\ WF_vars(ProcessExpire)
  /\ WF_vars(WorkerCrashExit \/ WorkerCrashRestart)
  /\ WF_vars(GateStart)
  /\ WF_vars(GateSelectInitial \/ GateSelectRunning)
  /\ WF_vars(GateDeferred)
  /\ WF_vars(GateCrash)

-----------------------------------------------------------------------------
(* expire, called any number of times on one scope object *)

\* the values status.scopeID and status.namespaces of a definition take
Definitions ==
  {Definition(id, ns, <<>>) : id \in 0..MaxGen, ns \in NamespaceLists \cup {<<>>}}

\* the reasons expire is called with
Reasons == {NoErr, ErrChanged, ErrInternal}

\* one scope object as buildExpiringScope builds it, and a watch handler on it
ExpireInit ==
  /\ \E def \in Definitions, k \in Keys :
       /\ heap = <<buildExpiringScope(def, k)>>
       /\ gate = NewScopeWatchHandler(1, buildExpiringScope(def, k))
  /\ request = NoRequest
  /\ controller = NoController
  /\ run = Running
  /\ storeMapper = NoStoreMapper
  /\ fleet = NoFleet
  /\ lister = [k \in Keys |-> NoDef]
  /\ nextID = 0
  /\ queue = <<>>
  /\ dirty = {}
  /\ processing = {}
  /\ scopes = <<>>
  /\ alive = TRUE
  /\ pc = "idle"
  /\ wkey = <<>>
  /\ wdef = NoDef
  /\ wexisting = 0
  /\ wnew = 0
  /\ lastResult = "none"
  /\ resolved = <<>>
  /\ held = 0
  /\ observed = FALSE

\* s.expire(err) on the scope object
ExpireScope(err) ==
  /\ heap' = [heap EXCEPT ![1] = expire(@, err)]
  /\ UNCHANGED <<fleet, storeMapper, run, controller, request, gate, lister, nextID, queue, dirty, processing, scopes, alive,
                 pc, wkey, wdef, wexisting, wnew, lastResult, resolved, held,
                 observed>>

\* wh.expire(err) on the scope embedded in the watch handler
ExpireGateScope(err) ==
  /\ gate' = [gate EXCEPT !.scope = expire(@, err)]
  /\ UNCHANGED <<fleet, storeMapper, run, controller, request, lister, nextID, queue, dirty, processing, scopes, heap, alive,
                 pc, wkey, wdef, wexisting, wnew, lastResult, resolved, held,
                 observed>>

ExpireNext ==
  \/ \E err \in Reasons : ExpireScope(err)
  \/ \E err \in Reasons : ExpireGateScope(err)

ExpireSpec == ExpireInit /\ [][ExpireNext]_vars

\* one step of a scope object: it closes its channel only while current,
\* an expired object is left as it is, and the identifier and the
\* namespaces stay
OneShot(s, t) ==
  /\ t.identifier = s.identifier
  /\ t.namespaces = s.namespaces
  /\ ~s.current => t = s
  /\ s.expiredCh = ClosedChan => t.expiredCh = ClosedChan
  /\ t.expiredCh # s.expiredCh => s.current /\ ~t.current

\* C11: expiration is one-shot for every scope object, of the resolver
\* and of a watch handler: the channel is closed only by the call that
\* finds the object current, which leaves it not current; a later expire
\* leaves the object, its first reason included, as it is; identifier and
\* namespaces never change.
C11_ExpireOneShot ==
  [][/\ OneShot(heap[1], heap'[1])
     /\ OneShot(gate.scope, gate'.scope)]_vars

\* both objects were expired, with different reasons
C11_Witness ==
  /\ ~heap[1].current
  /\ ~gate.scope.current
  /\ heap[1].err = ErrChanged
  /\ gate.scope.err = ErrInternal

-----------------------------------------------------------------------------
\* the cause an error returned by waitForMinimumResourceVersion stands for
CauseOf(ret) ==
  IF ret \in {<<NoErr>>, <<ErrDone>>} THEN "done"
  ELSE IF ret[1] = "ResourceExpired" THEN "floor"
  ELSE "parent"

\* C12: a handler whose parent is not expired ends with the cause that came
\* first, the cancellation of its context or a minimum above its initial
\* resource version. Violated: the select of the loop takes any of its
\* ready cases, so a handler whose context was cancelled first may end with
\* ResourceExpired, and one that was sent a minimum above its initial
\* resource version first may return nil for the cancelled context.
C12_EarliestCauseWins ==
  (gate.pc \in {"deferred", "panic", "exited"} /\ ~HasExpired(heap[gate.parent]))
     => CauseOf(gate.ret) = gate.first

-----------------------------------------------------------------------------
\* C13: a SetInitialResourceVersion call on a handler that has accepted an
\* initial resource version returns an error and leaves initialRV as it is.
\* Violated: readInitialResourceVersion closed the channel when it returned
\* the first value, and the send of the later call on the closed channel
\* panics.
C13_LaterSetInitialFails ==
  [][(gate.initialRV > 0 /\ \E rv \in ResourceVersions : SetInitialResourceVersion(rv))
       => (gate'.call = "error" /\ gate'.initialRV = gate.initialRV)]_vars

-----------------------------------------------------------------------------
\* C14: a SetMinimumResourceVersion call returns nil and appends its value
\* while fewer than minimumResourceVersionUpdateChannelSize values are
\* pending, and returns an error and appends nothing otherwise; no more
\* than that many values are ever pending. Violated: on a handler whose
\* goroutine has run its deferred close of the channel, the call panics.
C14_PublisherNeverBlocked ==
  [][\A rv \in ResourceVersions :
       SetMinimumResourceVersion(rv) =>
         /\ Len(gate'.minCh) <= minimumResourceVersionUpdateChannelSize
         /\ IF Len(gate.minCh) < minimumResourceVersionUpdateChannelSize
            THEN gate'.call = "nil" /\ gate'.minCh = Append(gate.minCh, rv)
            ELSE gate'.call = "error" /\ gate'.minCh = gate.minCh]_vars

\* on a channel that is not closed the call does what C14 says
OpenChannelNeverBlocked ==
  [][\A rv \in ResourceVersions :
       (~gate.minClosed /\ SetMinimumResourceVersion(rv)) =>
         /\ Len(gate'.minCh) <= minimumResourceVersionUpdateChannelSize
         /\ IF Len(gate.minCh) < minimumResourceVersionUpdateChannelSize
            THEN gate'.call = "nil" /\ gate'.minCh = Append(gate.minCh, rv)
            ELSE gate'.call = "error" /\ gate'.minCh = gate.minCh]_vars

-----------------------------------------------------------------------------
(* Writes of a ScopeDefinition through the API: the registry strategy,     *)
(* the admission plugin and the validation                                  *)

\* the most entries of status.serverScopeVersions in a request
MaxSSV == 2


\* resource versions a client may report: "9", "10", "09" and one that is
\* not a number
RVStrings == {<<"9">>, <<"1", "0">>, <<"0", "9">>, <<"x">>}

\* the scopeIDs a client may put in a request: the stored one, and one of
\* its own making that is never generated
ClientScopeIDs(old) == {old.scopeID, MaxGen + 1}

\* requests that carry another status.namespaces and status.scopeID
NamespaceRequests(old) ==
  {[old EXCEPT !.namespaces = ns, !.scopeID = id] :
      ns \in NamespaceLists \cup {<<>>}, id \in ClientScopeIDs(old)}

\* requests of a server that reports its progress: one entry of
\* status.serverScopeVersions is set, with the scopeID of the generation the
\* server has moved to
VersionRequests(old) ==
  {[old EXCEPT !.serverScopeVersions = SetServerScopeVersion(@, ssv)] :
      ssv \in {e \in {ServerScopeVersion(srv, st, old.scopeID, rv) :
                        srv \in Servers, st \in Stores, rv \in RVStrings} :
                 Len(SetServerScopeVersion(old.serverScopeVersions, e)) <= MaxSSV}}

\* ValidateScopeDefinitionStatusUpdate returns no error
ValidateScopeDefinitionStatusUpdate(sv, oldSV) ==
  sv.namespaces # oldSV.namespaces => sv.scopeID # oldSV.scopeID

\* A create through the API. PrepareForCreate does nothing and the admission
\* plugin handles updates only: the status of the request is stored.
CreateWithStatus(k, obj) ==
  /\ alive
  /\ lister[k] = NoDef
  /\ lister' = [lister EXCEPT ![k] = [obj EXCEPT !.state = "present"]]
  /\ enqueue(k)
  /\ UNCHANGED <<fleet, storeMapper, run, controller, request, gate, nextID, processing, scopes, heap, alive, pc, wkey, wdef,
                 wexisting, wnew, lastResult, resolved, held, observed>>

\* An update of scopedefinitions/status: Admit sets the scopeID and the
\* minimum resource versions (or fails), the validation runs on the result.
UpdateStatus(k, obj) ==
  /\ alive
  /\ IsDef(lister[k])
  /\ obj.namespaces # lister[k].namespaces => nextID < MaxGen
  /\ ~buildMinimumResourceVersionsFails(obj.serverScopeVersions)
  /\ \E mrvs \in buildMinimumResourceVersions(obj.serverScopeVersions) :
       LET new == [obj EXCEPT !.scopeID = AdmitScopeID(lister[k], obj, nextID + 1),
                              !.minimumResourceVersions = mrvs] IN
         /\ ValidateScopeDefinitionStatusUpdate(new, lister[k])
         /\ lister' = [lister EXCEPT ![k] = new]
  /\ nextID' = IF obj.namespaces # lister[k].namespaces THEN nextID + 1 ELSE nextID
  /\ enqueue(k)
  /\ UNCHANGED <<fleet, storeMapper, run, controller, request, gate, processing, scopes, heap, alive, pc, wkey, wdef,
                 wexisting, wnew, lastResult, resolved, held, observed>>

\* An update of scopedefinitions, not of the status subresource: Admit
\* returns at once, PrepareForUpdate does nothing, ValidateUpdate finds no
\* error: the object of the request is stored.
UpdateMain(k, obj) ==
  /\ alive
  /\ IsDef(lister[k])
  /\ lister' = [lister EXCEPT ![k] = obj]
  /\ enqueue(k)
  /\ UNCHANGED <<fleet, storeMapper, run, controller, request, gate, nextID, processing, scopes, heap, alive, pc, wkey, wdef,
                 wexisting, wnew, lastResult, resolved, held, observed>>

AdmitNext ==
  \/ \E obj \in NamespaceRequests(NoDef) : CreateWithStatus(KeyWA, obj)
  \/ \E obj \in NamespaceRequests(lister[KeyWA]) \cup VersionRequests(lister[KeyWA]) :
       UpdateStatus(KeyWA, obj)
  \/ \E obj \in NamespaceRequests(lister[KeyWA]) : UpdateMain(KeyWA, obj)
  \/ DeleteDefinition(KeyWA)

AdmitSpec == Init /\ [][AdmitNext]_vars

\* the stores that occur in a list of entries
StoresOf(entries) == {entries[i].storeID : i \in 1..Len(entries)}

\* C15: after an admitted update of the status, minimumResourceVersions has
\* exactly one entry for every store that occurs in serverScopeVersions and
\* none for any other, and the entry of a store carries a resource version
\* whose number is the greatest among the store's entries. (The other
\* writes of AdmitSpec leave both lists as they are.)
C15_MinimumIsNumericMaximum ==
  IsDef(lister[KeyWA]) =>
    LET ssvs == lister[KeyWA].serverScopeVersions
        mrvs == lister[KeyWA].minimumResourceVersions IN
      /\ StoresOf(mrvs) = StoresOf(ssvs)
      /\ \A i, j \in 1..Len(mrvs) : mrvs[i].storeID = mrvs[j].storeID => i = j
      /\ \A i \in 1..Len(mrvs) :
           /\ \E j \in 1..Len(ssvs) :
                /\ ssvs[j].storeID = mrvs[i].storeID
                /\ ssvs[j].resourceVersion = mrvs[i].resourceVersion
           /\ \A j \in 1..Len(ssvs) :
                ssvs[j].storeID = mrvs[i].storeID =>
                  ParseResourceVersion(ssvs[j].resourceVersion)
                    <= ParseResourceVersion(mrvs[i].resourceVersion)

\* two servers report "9" and "10" for one store: the minimum is "10"
C15_Witness ==
  /\ IsDef(lister[KeyWA])
  /\ \E i, j \in 1..Len(lister[KeyWA].serverScopeVersions) :
       LET a == lister[KeyWA].serverScopeVersions[i]
           b == lister[KeyWA].serverScopeVersions[j] IN
         /\ a.storeID = b.storeID
         /\ a.resourceVersion = <<"9">>
         /\ b.resourceVersion = <<"1", "0">>
  /\ Len(lister[KeyWA].minimumResourceVersions) = 1
  /\ lister[KeyWA].minimumResourceVersions[1].resourceVersion = <<"1", "0">>

\* C16: between two consecutive stored versions of a ScopeDefinition whose
\* status.namespaces differ, status.scopeID differs too and the new one is
\* freshly generated. Violated: an update of the resource itself (not of
\* its status subresource) is not touched by Admit, PrepareForUpdate keeps
\* the status of the request and ValidateScopeDefinitionUpdate finds no
\* error, so other namespaces are stored under the old scopeID.
C16_NamespacesChangeGetsFreshID ==
  [][(/\ IsDef(lister[KeyWA])
      /\ IsDef(lister'[KeyWA])
      /\ lister'[KeyWA].namespaces # lister[KeyWA].namespaces) =>
       /\ lister'[KeyWA].scopeID # lister[KeyWA].scopeID
       /\ nextID' = nextID + 1
       /\ lister'[KeyWA].scopeID = nextID']_vars

\* C17: the scopeID stored by an update of the status is the one stored
\* before or a freshly generated one, whatever scopeID the request carries.
\* Violated: Admit overrides the scopeID of the request only when the
\* namespaces change; with the namespaces unchanged the scopeID the client
\* sent is stored.
C17_ClientCannotSetScopeID ==
  [][(\E obj \in NamespaceRequests(lister[KeyWA]) : UpdateStatus(KeyWA, obj)) =>
       \/ lister'[KeyWA].scopeID = lister[KeyWA].scopeID
       \/ nextID' = nextID + 1 /\ lister'[KeyWA].scopeID = nextID']_vars

-----------------------------------------------------------------------------
(* SetServerScopeVersion and RemoveServerScopeVersion, called any number   *)
(* of times on the status of one copy of a ScopeDefinition                 *)

\* the entries the calls are made with
ServerScopeVersions ==
  {ServerScopeVersion(srv, st, 0, rv) :
     srv \in Servers, st \in Stores, rv \in {<<"9">>, <<"1", "0">>}}

\* the copy starts with an empty status
UtilInit ==
  /\ wdef = Definition(0, <<>>, <<>>)
  /\ lister = [k \in Keys |-> NoDef]
  /\ nextID = 0
  /\ queue = <<>>
  /\ dirty = {}
  /\ processing = {}
  /\ scopes = <<>>
  /\ heap = <<>>
  /\ alive = TRUE
  /\ pc = "idle"
  /\ wkey = <<>>
  /\ wexisting = 0
  /\ wnew = 0
  /\ lastResult = "none"
  /\ resolved = <<>>
  /\ held = 0
  /\ observed = FALSE
  /\ gate = NoGate
  /\ request = NoRequest
  /\ controller = NoController
  /\ run = Running
  /\ storeMapper = NoStoreMapper
  /\ fleet = NoFleet

SetEntry(ssv) ==
  /\ wdef' = [wdef EXCEPT !.serverScopeVersions = SetServerScopeVersion(@, ssv)]
  /\ UNCHANGED <<fleet, storeMapper, run, controller, request, gate, lister, nextID, queue, dirty, processing, scopes, heap,
                 alive, pc, wkey, wexisting, wnew, lastResult, resolved, held,
                 observed>>

RemoveEntry(apiServerID, storeID) ==
  /\ wdef' = [wdef EXCEPT !.serverScopeVersions =
                 RemoveServerScopeVersion(@, apiServerID, storeID)]
  /\ UNCHANGED <<fleet, storeMapper, run, controller, request, gate, lister, nextID, queue, dirty, processing, scopes, heap,
                 alive, pc, wkey, wexisting, wnew, lastResult, resolved, held,
                 observed>>

UtilNext ==
  \/ \E ssv \in ServerScopeVersions : SetEntry(ssv)
  \/ \E srv \in Servers, st \in Stores : RemoveEntry(srv, st)

UtilSpec == UtilInit /\ [][UtilNext]_vars

\* the entries of a list for one (apiServerID, storeID) key, with their count
EntriesFor(ssvs, apiServerID, storeID) ==
  {<<i, ssvs[i]>> : i \in {j \in 1..Len(ssvs) :
      ssvs[j].apiServerID = apiServerID /\ ssvs[j].storeID = storeID}}

\* the entry values of a list for one key
ValuesFor(ssvs, apiServerID, storeID) ==
  {e[2] : e \in EntriesFor(ssvs, apiServerID, storeID)}

\* C18: serverScopeVersions never holds two entries for one (apiServerID,
\* storeID) key; a Set leaves exactly the entry it was given for its key, a
\* Remove leaves none for its key, and both leave the entries of every
\* other key as they are: the entry of a key is the one set last.
C18_OneEntryPerKey ==
  [][LET old == wdef.serverScopeVersions
         new == wdef'.serverScopeVersions IN
       /\ \A srv \in Servers, st \in Stores :
            Cardinality(EntriesFor(new, srv, st)) <= 1
       /\ \A ssv \in ServerScopeVersions :
            SetEntry(ssv) =>
              /\ ValuesFor(new, ssv.apiServerID, ssv.storeID) = {ssv}
              /\ \A srv \in Servers, st \in Stores :
                   <<srv, st>> # <<ssv.apiServerID, ssv.storeID>> =>
                     ValuesFor(new, srv, st) = ValuesFor(old, srv, st)
       /\ \A s \in Servers, t \in Stores :
            RemoveEntry(s, t) =>
              /\ ValuesFor(new, s, t) = {}
              /\ \A srv \in Servers, st \in Stores :
                   <<srv, st>> # <<s, t>> =>
                     ValuesFor(new, srv, st) = ValuesFor(old, srv, st)]_vars

\* every key has an entry, and the entry of a key that was set twice is
\* the later one: it is at the end of the list
C18_Witness ==
  /\ Len(wdef.serverScopeVersions) = Cardinality(Servers) * Cardinality(Stores)
  /\ \A srv \in Servers, st \in Stores :
       Cardinality(EntriesFor(wdef.serverScopeVersions, srv, st)) = 1
  /\ wdef.serverScopeVersions[Len(wdef.serverScopeVersions)]
       = ServerScopeVersion(ThisServer, "store-x", 0, <<"1", "0">>)
  /\ wdef.serverScopeVersions[1].apiServerID = ThatServer

-----------------------------------------------------------------------------
(* DefaultScopeResolver.minimumResourceVersion *)

\* the resources of the store mapper, one of them unknown to it
Resources == {"pods", "events", "widgets"}

\* storeMapper.StoreForResource fails
StoreForResourceFails(resource) == resource = "widgets"

\* storeMapper.StoreForResource
StoreForResource(resource) ==
  IF resource = "pods" THEN "store-x" ELSE "store-y"

\* r.versioner: NewScopeDefinitionResolver leaves the field unset
versioner == "nil"

\* what a call ends with
Returns(rv) == [kind |-> "value", rv |-> rv]
ReturnsError == [kind |-> "error", rv |-> 0]
Panics == [kind |-> "panic", rv |-> 0]

\* the first entry of status.minimumResourceVersions for a store, 0 if none
FirstFor(mrvs, storeID) ==
  IF \E i \in 1..Len(mrvs) : mrvs[i].storeID = storeID
  THEN CHOOSE i \in 1..Len(mrvs) :
         /\ mrvs[i].storeID = storeID
         /\ \A j \in 1..(i - 1) : mrvs[j].storeID # storeID
  ELSE 0

\* minimumResourceVersion(scope, resource), with the lister as it is
minimumResourceVersion(defs, name, value, resource) ==
  IF StoreForResourceFails(resource) THEN ReturnsError
  ELSE IF ~IsDef(defs[ObjectName(name, value)]) THEN ReturnsError
  ELSE LET mrvs == defs[ObjectName(name, value)].minimumResourceVersions
           i == FirstFor(mrvs, StoreForResource(resource)) IN
         IF i = 0 THEN ReturnsError
         ELSE IF versioner = "nil" THEN Panics
         ELSE IF ParseFails(mrvs[i].resourceVersion) THEN ReturnsError
         ELSE Returns(ParseResourceVersion(mrvs[i].resourceVersion))

\* C19: minimumResourceVersion returns the resource version of the entry of
\* status.minimumResourceVersions, in the ScopeDefinition the lister holds
\* for the selector, of the store of the resource, and an error when the
\* definition or the entry is missing. Violated: r.versioner is nil, and
\* the call on it panics as soon as the entry is found.
C19_MinimumResourceVersionLookup ==
  \A k \in Keys, resource \in Resources :
    ~StoreForResourceFails(resource) =>
      LET out == minimumResourceVersion(lister, ScopeNameOf(k), ScopeValueOf(k), resource)
          mrvs == lister[k].minimumResourceVersions
          found == {i \in 1..Len(mrvs) : mrvs[i].storeID = StoreForResource(resource)} IN
        IF IsDef(lister[k]) /\ found # {}
        THEN \E i \in found : out = Returns(ParseResourceVersion(mrvs[i].resourceVersion))
        ELSE out = ReturnsError

-----------------------------------------------------------------------------
(* Requests through the handler chain: WithScope, then WithScopeResolver,
   then the read handler, which transforms the selectors and reads storage *)

Paths ==
  { <<"/", "p">>,
    ScopesPathPrefix \o <<"w", "/", "a", "/", "p">>,
    ScopesPathPrefix \o <<"w", "/", "a", "/", "p", "/", "q">>,
    ScopesPathPrefix \o <<"w", "/", "b", "/", "p">>,
    ScopesPathPrefix \o <<"/", "a", "/", "p">>,
    ScopesPathPrefix \o <<"w", "/", "/", "p">>,
    ScopesPathPrefix \o <<"w", "/">>,
    ScopesPathPrefix \o <<"w", "/", "a", "/">>,
    ScopesPathPrefix \o <<"w", "/", "a">>,
    <<"/", "s", "c", "o", "p", "e", "s">> }

Queries == { <<>>, << <<"scope", <<"a">> >> >> }

ScopeTerm(name, value) ==
  [field |-> ScopesFieldPrefix \o <<"/">> \o name, value |-> value]

PlainTerm == [field |-> <<"m">>, value |-> <<"x">>]

FieldSelectors ==
  { <<>>,
    <<PlainTerm>>,
    <<ScopeTerm(<<"w">>, <<"a">>)>>,
    <<PlainTerm, ScopeTerm(<<"w">>, <<"a">>)>>,
    <<ScopeTerm(<<"w">>, <<"a">>), ScopeTerm(<<"w">>, <<"b">>)>>,
    <<ScopeTerm(<<>>, <<"a">>)>> }

\* the resources read, and the label selectors a client may send
RequestResources == {"pods", "namespaces"}

LabelSelectors == { <<>>, << <<"app", "=", <<"foo">> >> >> }

\* a request arrives at the handler chain
ReceiveRequest(path, query, fieldSelector, resource, labelSelector) ==
  /\ alive
  /\ request.pc = "none"
  /\ request' = [NoRequest EXCEPT
                   !.pc = "withScope",
                   !.path = path,
                   !.query = query,
                   !.fieldSelector = fieldSelector,
                   !.resource = resource,
                   !.labelSelector = labelSelector,
                   !.sources = ScopeSources(path, query, fieldSelector)]
  /\ UNCHANGED <<fleet, storeMapper, run, controller, gate, lister, nextID, queue, dirty, processing, scopes, heap,
                 alive, pc, wkey, wdef, wexisting, wnew, lastResult, resolved,
                 held, observed>>

\* the handler WithScope installs
withScope ==
  /\ alive
  /\ request.pc = "withScope"
  /\ LET r == parseScope(request.path) IN
       request' =
         IF r[5] # ""
         THEN [request EXCEPT !.pc = "responded",
                              !.response = <<"BadRequest", r[5]>>,
                              !.by = "withScope"]
         ELSE IF ~r[4]
         THEN [request EXCEPT !.pc = "withScopeResolver"]
         ELSE [request EXCEPT !.pc = "withScopeResolver",
                              !.path = r[3],
                              !.ctx = <<"Value", r[1], r[2]>>]
  /\ UNCHANGED <<fleet, storeMapper, run, controller, gate, lister, nextID, queue, dirty, processing, scopes, heap,
                 alive, pc, wkey, wdef, wexisting, wnew, lastResult, resolved,
                 held, observed>>

\* withScopeResolver without the return after the error response (line 87):
\* the request goes on to the next handler
withScopeResolver_ForwardsOnError ==
  /\ alive
  /\ request.pc = "withScopeResolver"
  /\ request' =
       IF request.ctx = <<>>
       THEN [request EXCEPT !.pc = "handler"]
       ELSE LET s == readScope(scopes, request.ctx[2], request.ctx[3]) IN
              IF s = 0
              THEN [request EXCEPT !.pc = "handler",
                                   !.response = <<"InternalError">>,
                                   !.by = "withScopeResolver"]
              ELSE [request EXCEPT !.pc = "handler",
                                   !.ctx = <<"Scope", s>>]
  /\ UNCHANGED <<fleet, storeMapper, run, controller, gate, lister, nextID, queue, dirty, processing, scopes, heap,
                 alive, pc, wkey, wdef, wexisting, wnew, lastResult, resolved,
                 held, observed>>

\* the handler WithScopeResolver installs
withScopeResolver ==
  /\ alive
  /\ request.pc = "withScopeResolver"
  /\ request' =
       IF request.ctx = <<>>
       THEN [request EXCEPT !.pc = "handler"]
       ELSE LET s == readScope(scopes, request.ctx[2], request.ctx[3]) IN
              IF s = 0
              THEN [request EXCEPT !.pc = "responded",
                                   !.response = <<"InternalError">>,
                                   !.by = "withScopeResolver"]
              ELSE [request EXCEPT !.pc = "handler",
                                   !.ctx = <<"Scope", s>>]
  /\ UNCHANGED <<fleet, storeMapper, run, controller, gate, lister, nextID, queue, dirty, processing, scopes, heap,
                 alive, pc, wkey, wdef, wexisting, wnew, lastResult, resolved,
                 held, observed>>

\* TransformScopeSelectors in the read handler; mgr.GetNamespaces answers
\* with a list of namespaces and a floor, or with an error
TransformScopeSelectors ==
  /\ alive
  /\ request.pc = "handler"
  /\ IF TransformFails(request.fieldSelector)
     THEN request' = [request EXCEPT !.pc = "responded",
                                     !.response = <<"BadRequest",
                        "cannot specify more than one scopes.k8s.io label selector">>,
                                     !.by = "handler"]
     ELSE IF TransformedScopeName(request.fieldSelector) = <<>>
     THEN request' = [request EXCEPT
                        !.pc = "storage",
                        !.fieldSelector = RejectScopeTerms(@)]
     ELSE \/ request' = [request EXCEPT !.pc = "responded",
                                        !.response = <<"InternalError">>,
                                        !.by = "handler"]
          \/ \E namespaces \in NamespaceLists, minimumRV \in ResourceVersions :
               request' = [request EXCEPT
                             !.pc = "storage",
                             !.fieldSelector = RejectScopeTerms(@),
                             !.labelSelector =
                                Append(@, <<"metadata.namespace", "in", namespaces>>),
                             !.minimumRV = minimumRV]
  /\ UNCHANGED <<fleet, storeMapper, run, controller, gate, lister, nextID, queue, dirty, processing, scopes, heap,
                 alive, pc, wkey, wdef, wexisting, wnew, lastResult, resolved,
                 held, observed>>

FilterNext ==
  \/ \E path \in Paths, query \in Queries, fieldSelector \in FieldSelectors,
        resource \in RequestResources, labelSelector \in LabelSelectors :
       ReceiveRequest(path, query, fieldSelector, resource, labelSelector)
  \/ withScope
  \/ withScopeResolver
  \/ TransformScopeSelectors

\* the handler chain of a server whose resolver has installed w:a
FilterSpec == GateInit /\ [][FilterNext]_vars

\* C20: a request that arrives with more than one scope source (query
\* parameter, /scopes/ path prefix, scopes.k8s.io/ field selector) is answered
\* with BadRequest by WithScope and goes no further: it is never at the
\* resolver, the read handler or storage. Violated: WithScope looks at the
\* path only, so a request with a scope path and a scope field selector (or a
\* scope query parameter) is forwarded.
C20_MultipleSourcesRejected ==
  Cardinality(request.sources) > 1 =>
    \/ request.pc = "withScope"
    \/ /\ request.pc = "responded"
       /\ request.by = "withScope"
       /\ request.response[1] = "BadRequest"

\* C21: WithScopeResolver forwards a request without a selector in its
\* context unchanged; answers a request whose selector is not in the
\* resolver's table with InternalError, after which the request never reaches
\* the next handler; and forwards a request whose selector is in the table
\* with the Scope of the table in place of the selector.
C21_ResolveStage ==
  /\ [][request.pc = "withScopeResolver" /\ request' # request =>
          IF request.ctx = <<>>
          THEN request' = [request EXCEPT !.pc = "handler"]
          ELSE IF ~HasValue(scopes, request.ctx[2], request.ctx[3])
          THEN /\ request'.pc = "responded"
               /\ request'.response = <<"InternalError">>
          ELSE /\ request' = [request EXCEPT
                    !.pc = "handler",
                    !.ctx = <<"Scope", scopes[request.ctx[2]][request.ctx[3]]>>]
               /\ heap[request'.ctx[2]].name = request.ctx[2]
               /\ heap[request'.ctx[2]].value = request.ctx[3]]_vars
  /\ [](request.by = "withScopeResolver" => request.pc = "responded")

\* a selector that is not in the table was answered with InternalError
C21_Witness ==
  /\ request.pc = "responded"
  /\ request.by = "withScopeResolver"
  /\ request.response = <<"InternalError">>

\* the path is /scopes/<name>/<value>/<rest>, name and value are not empty
\* and hold no "/"
IsScopedPath(path, name, value, rest) ==
  /\ path = ScopesPathPrefix \o name \o <<"/">> \o value \o <<"/">> \o rest
  /\ name # <<>> /\ value # <<>>
  /\ IndexOf(name, "/", 1) = 0 /\ IndexOf(value, "/", 1) = 0

NoSuffix == <<"none">>

RECURSIVE AfterSlash(_, _)
AfterSlash(s, n) ==
  IF n = 0 \/ s = NoSuffix THEN s
  ELSE LET i == IndexOf(s, "/", 1) IN
         IF i = 0 THEN NoSuffix ELSE AfterSlash(SubSeq(s, i + 1, Len(s)), n - 1)

\* the text of s up to its first "/"
Segment(s) ==
  LET i == IndexOf(s, "/", 1) IN IF i = 0 THEN s ELSE SubSeq(s, 1, i - 1)

\* C23: WithScope answers a request whose path starts with /scopes/ and has
\* no segment after the scope value, an empty scope name or an empty scope
\* value with BadRequest ("invalid scoped request path", "no scope name
\* specified", "no scope value specified", in this order of precedence), and
\* a request WithScope answered never reaches the next handler.
C23_MalformedPathRejected ==
  /\ [][request.pc = "withScope" /\ request' # request
          /\ HasPrefix(request.path, ScopesPathPrefix) =>
          LET afterPrefix == AfterSlash(request.path, 2)
              afterValue == AfterSlash(request.path, 4)
              rejected(msg) ==
                request' = [request EXCEPT !.pc = "responded",
                                           !.response = <<"BadRequest", msg>>,
                                           !.by = "withScope"] IN
            IF afterValue = NoSuffix
            THEN rejected("invalid scoped request path")
            ELSE IF Segment(afterPrefix) = <<>>
            THEN rejected("no scope name specified")
            ELSE IF Segment(AfterSlash(request.path, 3)) = <<>>
            THEN rejected("no scope value specified")
            ELSE request'.pc = "withScopeResolver"]_vars
  /\ [](request.by = "withScope" => request.pc = "responded")

\* /scopes/w//p has been answered with BadRequest
C23_Witness ==
  /\ request.pc = "responded"
  /\ request.by = "withScope"
  /\ request.response = <<"BadRequest", "no scope value specified">>

\* the label the added requirement is on: the label the namespace labeler
\* sets, and the name label for the namespaces resource itself
NamespaceNameLabelKey == "kubernetes.io/metadata.namespace"

MetadataNameLabelKey == "kubernetes.io/metadata.name"

ScopeLabelKey(resource) ==
  IF resource = "namespaces" THEN MetadataNameLabelKey ELSE NamespaceNameLabelKey

\* C24: when the read handler hands a read with a scope field selector to
\* storage, the label selector is the user's selector with exactly one
\* requirement added to it: kubernetes.io/metadata.namespace IN N, or
\* kubernetes.io/metadata.name IN N when the resource is namespaces, where N
\* is the list of namespaces of the scope. Violated: the requirement added is
\* on the key metadata.namespace for every resource.
C24_NamespaceRequirementAdded ==
  [][request.pc = "handler" /\ request'.pc = "storage"
       /\ TransformedScopeName(request.fieldSelector) # <<>> =>
       \E N \in NamespaceLists :
         request'.labelSelector =
           Append(request.labelSelector,
                  <<ScopeLabelKey(request.resource), "in", N>>)]_vars

\* the worker is in process for a definition whose status.scopeID is the
\* identifier of the scope the table holds for its selector
ReconcilesSameScopeID ==
  /\ pc = "process"
  /\ IsDef(lister[wkey])
  /\ readScope(scopes, ScopeNameOf(wkey), ScopeValueOf(wkey)) # 0
  /\ heap[readScope(scopes, ScopeNameOf(wkey), ScopeValueOf(wkey))].identifier
       = lister[wkey].scopeID

\* C25: a reconcile of a definition whose status.scopeID is the identifier of
\* the scope in the table changes nothing: the table and every scope object
\* stay as they are (nothing is installed, nothing expires), the worker does
\* not go on to read store resource versions or to update the status, the
\* informer cache is not written, and process returns nil.
C25_SameScopeIDIsNoOp ==
  [][ReconcilesSameScopeID /\ pc' # pc =>
       /\ scopes' = scopes
       /\ heap' = heap
       /\ lister' = lister
       /\ pc' = "idle"
       /\ lastResult' = "nil"]_vars

\* such a reconcile is under way
C25_Witness ==
  /\ ReconcilesSameScopeID
  /\ lister[wkey].scopeID > 0

-----------------------------------------------------------------------------
(* The scope controller (controller/requestscoping/scope_controller.go): it
   copies spec.namespaces, sorted and without duplicates, to
   status.namespaces *)

\* the namespace names, in the order sort.Strings puts them in
NamespaceNames == <<"ns-a", "ns-b", "ns-c">>

\* spec.namespaces values a client may write
SpecNamespaceLists ==
  { <<>>, <<"ns-a", "ns-b">>, <<"ns-b", "ns-a">>, <<"ns-a", "ns-a">> }

\* status.namespaces values a client may send along when it creates the object
StatusNamespaceLists == { <<>>, <<"ns-b", "ns-a">> }

\* sets.New(list...)
SetOf(list) == {list[i] : i \in DOMAIN list}

\* set.UnsortedList() followed by sort.Strings
SortStrings(set) == SelectSeq(NamespaceNames, LAMBDA n : n \in set)

\* UnsortedList without the sort: the elements in some order
SortStrings_Reversed(set) ==
  LET sorted == SelectSeq(NamespaceNames, LAMBDA n : n \in set) IN
    [i \in 1..Len(sorted) |-> sorted[Len(sorted) + 1 - i]]

\* c.queue.Add(key) on the controller's work queue
ControllerQueueAdd(c, key) ==
  IF key \in c.dirty THEN c
  ELSE [c EXCEPT !.dirty = @ \cup {key},
                 !.queue = IF key \in c.processing THEN @ ELSE Append(@, key)]

\* the deferred c.queue.Done(key); the worker is idle again
ControllerQueueDone(c, result) ==
  [c EXCEPT !.processing = @ \ {c.key},
            !.queue = IF c.key \in c.dirty THEN Append(@, c.key) ELSE @,
            !.pc = "idle",
            !.key = <<>>,
            !.last = result]

\* A client creates the object with spec.namespaces and, as the create
\* strategy keeps what it is sent, status.namespaces. AddFunc of both
\* informers enqueues.
CreateWithSpec(k, specNamespaces, statusNamespaces) ==
  /\ alive
  /\ lister[k] = NoDef
  /\ lister' = [lister EXCEPT ![k] =
                  [Definition(0, statusNamespaces, <<>>) EXCEPT
                     !.specNamespaces = specNamespaces]]
  /\ enqueue(k)
  /\ controller' = ControllerQueueAdd(controller, k)
  /\ UNCHANGED <<fleet, storeMapper, run, request, gate, nextID, processing, scopes, heap, alive, pc,
                 wkey, wdef, wexisting, wnew, lastResult, resolved, held,
                 observed>>

\* A client updates spec.namespaces. UpdateFunc of both informers enqueues.
UpdateSpec(k, specNamespaces) ==
  /\ alive
  /\ IsDef(lister[k])
  /\ lister[k].specNamespaces # specNamespaces
  /\ lister' = [lister EXCEPT ![k].specNamespaces = specNamespaces]
  /\ enqueue(k)
  /\ controller' = ControllerQueueAdd(controller, k)
  /\ UNCHANGED <<fleet, storeMapper, run, request, gate, nextID, processing, scopes, heap, alive, pc,
                 wkey, wdef, wexisting, wnew, lastResult, resolved, held,
                 observed>>

\* key, quit := c.queue.Get()
ControllerGet ==
  /\ alive
  /\ controller.pc = "idle"
  /\ controller.queue # <<>>
  /\ controller' = [controller EXCEPT
                      !.key = Head(controller.queue),
                      !.queue = Tail(@),
                      !.dirty = @ \ {Head(controller.queue)},
                      !.processing = @ \cup {Head(controller.queue)},
                      !.pc = "process"]
  /\ UNCHANGED <<fleet, storeMapper, run, gate, request, lister, nextID, queue, dirty, processing,
                 scopes, heap, alive, pc, wkey, wdef, wexisting, wnew,
                 lastResult, resolved, held, observed>>

\* the object is not in the lister, or the sets of spec.namespaces and
\* status.namespaces are equal: return nil
ControllerNoChange ==
  /\ alive
  /\ controller.pc = "process"
  /\ \/ ~IsDef(lister[controller.key])
     \/ SetOf(lister[controller.key].specNamespaces)
          = SetOf(lister[controller.key].namespaces)
  /\ controller' = ControllerQueueDone(controller, "nil")
  /\ UNCHANGED <<fleet, storeMapper, run, gate, request, lister, nextID, queue, dirty, processing,
                 scopes, heap, alive, pc, wkey, wdef, wexisting, wnew,
                 lastResult, resolved, held, observed>>

\* the sets differ and UpdateStatus succeeds: status.namespaces is the sorted
\* list of the set, the admission plugin assigns the scopeID; UpdateFunc of
\* both informers enqueues; return nil
ControllerUpdateStatus ==
  /\ alive
  /\ controller.pc = "process"
  /\ IsDef(lister[controller.key])
  /\ SetOf(lister[controller.key].specNamespaces)
       # SetOf(lister[controller.key].namespaces)
  /\ nextID < MaxGen
  /\ nextID' = nextID + 1
  /\ LET k == controller.key
         obj == [lister[k] EXCEPT
                   !.namespaces = SortStrings(SetOf(lister[k].specNamespaces))] IN
       lister' = [lister EXCEPT ![k] =
                    [obj EXCEPT !.scopeID = AdmitScopeID(lister[k], obj, nextID + 1)]]
  /\ enqueue(controller.key)
  /\ controller' = ControllerQueueDone(
                     ControllerQueueAdd(controller, controller.key), "nil")
  /\ UNCHANGED <<fleet, storeMapper, run, gate, request, processing, scopes, heap, alive, pc, wkey,
                 wdef, wexisting, wnew, lastResult, resolved, held, observed>>

\* the sets differ and UpdateStatus fails: c.queue.AddRateLimited(key)
ControllerUpdateStatusFails ==
  /\ alive
  /\ controller.pc = "process"
  /\ IsDef(lister[controller.key])
  /\ SetOf(lister[controller.key].specNamespaces)
       # SetOf(lister[controller.key].namespaces)
  /\ controller' = ControllerQueueDone(
                     ControllerQueueAdd(controller, controller.key), "error")
  /\ UNCHANGED <<fleet, storeMapper, run, gate, request, lister, nextID, queue, dirty, processing,
                 scopes, heap, alive, pc, wkey, wdef, wexisting, wnew,
                 lastResult, resolved, held, observed>>

ControllerNext ==
  \/ \E specNamespaces \in SpecNamespaceLists,
        statusNamespaces \in StatusNamespaceLists :
       CreateWithSpec(KeyWA, specNamespaces, statusNamespaces)
  \/ \E specNamespaces \in SpecNamespaceLists : UpdateSpec(KeyWA, specNamespaces)
  \/ DeleteDefinition(KeyWA)
  \/ ControllerGet
  \/ ControllerNoChange
  \/ ControllerUpdateStatus
  \/ ControllerUpdateStatusFails

ControllerSpec == Init /\ [][ControllerNext]_vars

\* the controller has nothing left to do for the object: its last process
\* call returned nil and the key is neither waiting nor handed out
Quiescent(k) ==
  /\ IsDef(lister[k])
  /\ controller.pc = "idle"
  /\ controller.last = "nil"
  /\ k \notin controller.dirty \cup controller.processing

\* C26: whenever the controller is quiescent for an object, status.namespaces
\* is the sorted list, without duplicates, of the values of spec.namespaces.
\* Violated: an object created with status.namespaces [ns-b, ns-a] and
\* spec.namespaces [ns-a, ns-b] is left as it is, the sets being equal.
C26_StatusIsSortedSpec ==
  \A k \in Keys :
    Quiescent(k) =>
      lister[k].namespaces = SortStrings(SetOf(lister[k].specNamespaces))

\* what holds of the controller's own writes: a successful UpdateStatus of
\* the controller stores the sorted list of the set of spec.namespaces
ControllerWritesSortedSpec ==
  [][controller.pc = "process" /\ controller'.pc = "idle" /\ lister' # lister =>
       lister'[controller.key].namespaces =
         SortStrings(SetOf(lister[controller.key].specNamespaces))]_vars

-----------------------------------------------------------------------------
(* DefaultScopeResolver.Run: it starts the worker goroutine, waits for its
   context and returns; the deferred queue.ShutDown() runs on return *)

\* the context of Run is cancelled
CancelRun ==
  /\ alive
  /\ ~run.ctxDone
  /\ run' = [run EXCEPT !.ctxDone = TRUE]
  /\ UNCHANGED <<fleet, storeMapper, controller, request, gate, lister, nextID, queue, dirty,
                 processing, scopes, heap, alive, pc, wkey, wdef, wexisting,
                 wnew, lastResult, resolved, held, observed>>

\* <-ctx.Done() is ready: Run returns, and r.queue.ShutDown() is called on
\* the way out. Run waits for nothing else.
RunReturns ==
  /\ alive
  /\ run.ctxDone
  /\ ~run.returned
  /\ run' = [run EXCEPT !.returned = TRUE, !.shuttingDown = TRUE]
  /\ UNCHANGED <<fleet, storeMapper, controller, request, gate, lister, nextID, queue, dirty,
                 processing, scopes, heap, alive, pc, wkey, wdef, wexisting,
                 wnew, lastResult, resolved, held, observed>>

\* queue.Get() on an empty queue that is shutting down: quit is true,
\* processNextWorkItem returns false and runWorker ends
WorkerQuit ==
  /\ alive
  /\ pc = "idle"
  /\ queue = <<>>
  /\ run.shuttingDown
  /\ pc' = "stopped"
  /\ UNCHANGED <<fleet, storeMapper, run, controller, request, gate, lister, nextID, queue, dirty,
                 processing, scopes, heap, alive, wkey, wdef, wexisting,
                 wnew, lastResult, resolved, held, observed>>

RunNext ==
  \/ \E k \in Keys : CreateDefinition(k)
  \/ \E k \in Keys, ns \in NamespaceLists : UpdateNamespaces(k, ns)
  \/ \E k \in Keys : DeleteDefinition(k)
  \/ Get
  \/ ProcessNotFound
  \/ ProcessInstall
  \/ ProcessUnchanged
  \/ ProcessPublish
  \/ ProcessExpire
  \/ WorkerCrashExit
  \/ WorkerCrashRestart
  \/ CancelRun
  \/ RunReturns
  \/ WorkerQuit

RunSpec == Init /\ [][RunNext]_vars

\* a process call is executing
InProcess == pc \in {"process", "expire", "versions", "update", "panic"}

\* C27: once Run has returned, no process call is executing, and no further
\* key is taken from the queue. Violated: Run returns as soon as its context
\* is done, the worker goroutine is not waited for, and Get on a queue that
\* is shutting down still hands out the keys that are waiting.
C27_RunDrains ==
  /\ [](run.returned => ~InProcess)
  /\ [][run.returned => ~(pc = "idle" /\ pc' = "process")]_vars

-----------------------------------------------------------------------------
(* The store mapper of the server options (server/options/scopes.go) *)

\* store IDs the options may name, and the group/resources they may override
StoreIDs == {"store-x", "store-y", "store-z"}

MapperResources == {"pods", "events", "leases"}

OverrideMaps == UNION {[D -> StoreIDs] : D \in SUBSET MapperResources}

\* Stores() without the default store ID
simpleStoreMapperStores_OverridesOnly(m) ==
  {m.overrides[r] : r \in DOMAIN m.overrides}

\* Stores(): the default store ID and the values of the overrides, as a set
simpleStoreMapperStores(m) ==
  {m.defaultStoreID} \cup {m.overrides[r] : r \in DOMAIN m.overrides}

\* StoreForResource(resource): store ID, err
simpleStoreMapperStoreForResource(m, resource) ==
  IF resource \in DOMAIN m.overrides
  THEN <<m.overrides[resource], "nil">>
  ELSE <<m.defaultStoreID, "nil">>

\* CurrentResourceVersion(ctx, storeID), the store answering rv or failing
simpleStoreMapperCurrentResourceVersion(m, storeID, rv, storeFails) ==
  IF storeID \notin m.stores THEN <<0, "unrecognised store ID">>
  ELSE IF storeFails THEN <<0, "storage error">>
  ELSE <<rv, "nil">>

MapperInit ==
  /\ \E defaultStoreID \in StoreIDs, overrides \in OverrideMaps :
       storeMapper = newSimpleStoreMapper(defaultStoreID, overrides)
  /\ fleet = NoFleet
  /\ lister = [k \in Keys |-> NoDef]
  /\ nextID = 0
  /\ queue = <<>>
  /\ dirty = {}
  /\ processing = {}
  /\ scopes = <<>>
  /\ heap = <<>>
  /\ alive = TRUE
  /\ pc = "idle"
  /\ wkey = <<>>
  /\ wdef = NoDef
  /\ wexisting = 0
  /\ wnew = 0
  /\ lastResult = "none"
  /\ resolved = <<>>
  /\ held = 0
  /\ observed = FALSE
  /\ gate = NoGate
  /\ request = NoRequest
  /\ controller = NoController
  /\ run = Running

CallStores ==
  /\ storeMapper' = [storeMapper EXCEPT
                       !.call = <<"Stores">>,
                       !.result = simpleStoreMapperStores(storeMapper)]
  /\ UNCHANGED <<fleet, run, controller, request, gate, lister, nextID, queue, dirty,
                 processing, scopes, heap, alive, pc, wkey, wdef, wexisting,
                 wnew, lastResult, resolved, held, observed>>

CallStoreForResource(resource) ==
  /\ storeMapper' = [storeMapper EXCEPT
                       !.call = <<"StoreForResource", resource>>,
                       !.result = simpleStoreMapperStoreForResource(storeMapper, resource)]
  /\ UNCHANGED <<fleet, run, controller, request, gate, lister, nextID, queue, dirty,
                 processing, scopes, heap, alive, pc, wkey, wdef, wexisting,
                 wnew, lastResult, resolved, held, observed>>

CallCurrentResourceVersion(storeID, rv, storeFails) ==
  /\ storeMapper' = [storeMapper EXCEPT
                       !.call = <<"CurrentResourceVersion", storeID>>,
                       !.result = simpleStoreMapperCurrentResourceVersion(
                                    storeMapper, storeID, rv, storeFails)]
  /\ UNCHANGED <<fleet, run, controller, request, gate, lister, nextID, queue, dirty,
                 processing, scopes, heap, alive, pc, wkey, wdef, wexisting,
                 wnew, lastResult, resolved, held, observed>>

MapperNext ==
  \/ CallStores
  \/ \E resource \in MapperResources : CallStoreForResource(resource)
  \/ \E storeID \in StoreIDs, rv \in ResourceVersions, storeFails \in BOOLEAN :
       CallCurrentResourceVersion(storeID, rv, storeFails)

MapperSpec == MapperInit /\ [][MapperNext]_vars

\* C28: StoreForResource never fails and returns the override of the
\* resource if it has one and the default store ID otherwise; Stores() is the
\* default store ID together with the values of the overrides, so it holds
\* every store ID StoreForResource returns; and CurrentResourceVersion never
\* answers a store ID of Stores() with "unrecognised store ID".
C28_StoreMapperTotal ==
  LET m == storeMapper
      overridden == {m.overrides[r] : r \in DOMAIN m.overrides} IN
    /\ m.call # <<>> /\ m.call[1] = "StoreForResource" =>
         /\ m.result[2] = "nil"
         /\ m.result[1] = IF m.call[2] \in DOMAIN m.overrides
                          THEN m.overrides[m.call[2]] ELSE m.defaultStoreID
         /\ m.result[1] \in simpleStoreMapperStores(m)
    /\ m.call = <<"Stores">> =>
         /\ m.result = {m.defaultStoreID} \cup overridden
         /\ m.defaultStoreID \in m.result
    /\ m.call # <<>> /\ m.call[1] = "CurrentResourceVersion"
         /\ m.call[2] \in simpleStoreMapperStores(m) =>
         m.result[2] # "unrecognised store ID"

\* Stores() was called on a mapper whose overrides do not name the default
C28_Witness ==
  /\ storeMapper.call = <<"Stores">>
  /\ DOMAIN storeMapper.overrides # {}
  /\ \A r \in DOMAIN storeMapper.overrides :
       storeMapper.overrides[r] # storeMapper.defaultStoreID

-----------------------------------------------------------------------------
(* The resource version of a write from a scoped client
   (endpoints/handlers/scopes.go, TransformScopedResourceVersion) *)

MaxRVLen == 4

\* the characters of the resource versions tried: the marker of a scoped
\* client, the end of the marker, and another digit
RVChars == {"0", "9", "1"}

WriteResourceVersions == UNION {[1..n -> RVChars] : n \in 0..MaxRVLen}

\* TransformScopedResourceVersion that does not look at the first character
TransformScopedResourceVersion_AnyPrefix(rv) ==
  IF Len(rv) = 0 THEN rv
  ELSE LET c == Cut(rv, "9") IN IF ~c[3] THEN rv ELSE c[2]

\* the resourceVersion of the object after TransformScopedResourceVersion
TransformScopedResourceVersion(rv) ==
  IF Len(rv) = 0 \/ rv[1] # "0" THEN rv
  ELSE LET c == Cut(rv, "9") IN IF ~c[3] THEN rv ELSE c[2]

\* a write arrives with a resourceVersion in the object
ReceiveWrite(rv) ==
  /\ alive
  /\ request.pc = "none"
  /\ request' = [NoRequest EXCEPT !.pc = "write",
                                  !.resourceVersion = rv,
                                  !.receivedRV = rv]
  /\ UNCHANGED <<fleet, storeMapper, run, controller, gate, lister, nextID, queue,
                 dirty, processing, scopes, heap, alive, pc, wkey, wdef,
                 wexisting, wnew, lastResult, resolved, held, observed>>

\* the write handler calls TransformScopedResourceVersion on the object and
\* hands it to storage
WriteTransformed ==
  /\ alive
  /\ request.pc = "write"
  /\ request' = [request EXCEPT
                   !.pc = "storage-write",
                   !.resourceVersion = TransformScopedResourceVersion(@)]
  /\ UNCHANGED <<fleet, storeMapper, run, controller, gate, lister, nextID, queue,
                 dirty, processing, scopes, heap, alive, pc, wkey, wdef,
                 wexisting, wnew, lastResult, resolved, held, observed>>

\* the response is sent; the next request may arrive
WriteDone ==
  /\ alive
  /\ request.pc = "storage-write"
  /\ request' = NoRequest
  /\ UNCHANGED <<fleet, storeMapper, run, controller, gate, lister, nextID, queue,
                 dirty, processing, scopes, heap, alive, pc, wkey, wdef,
                 wexisting, wnew, lastResult, resolved, held, observed>>

WriteNext ==
  \/ \E rv \in WriteResourceVersions : ReceiveWrite(rv)
  \/ WriteTransformed
  \/ WriteDone

WriteSpec == Init /\ [][WriteNext]_vars

\* C29: the resource version handed to the storage write path is what
\* follows the first "9" of the resource version received when that one is
\* not empty, starts with "0" and holds a "9", and is the resource version
\* received in every other case.
C29_ScopedResourceVersionStripped ==
  request.pc = "storage-write" =>
    LET rv == request.receivedRV
        nines == {i \in 1..Len(rv) : rv[i] = "9"} IN
      IF rv # <<>> /\ rv[1] = "0" /\ nines # {}
      THEN LET first == CHOOSE i \in nines : \A j \in nines : i <= j IN
             request.resourceVersion = SubSeq(rv, first + 1, Len(rv))
      ELSE request.resourceVersion = rv

\* "0919" went to storage as "19"
C29_Witness ==
  /\ request.pc = "storage-write"
  /\ request.receivedRV = <<"0", "9", "1", "9">>
  /\ request.resourceVersion = <<"1", "9">>

-----------------------------------------------------------------------------
(* ScopeDefinitions whose name holds no ":" (ValidateScopeDefinitionName
   accepts every name) *)

KeyW == <<"w">>

ParseKeys == {KeyWA, KeyW}

ParseInit ==
  /\ lister = [k \in ParseKeys |-> NoDef]
  /\ nextID = 0
  /\ queue = <<>>
  /\ dirty = {}
  /\ processing = {}
  /\ scopes = <<>>
  /\ heap = <<>>
  /\ alive = TRUE
  /\ pc = "idle"
  /\ wkey = <<>>
  /\ wdef = NoDef
  /\ wexisting = 0
  /\ wnew = 0
  /\ lastResult = "none"
  /\ resolved = <<>>
  /\ held = 0
  /\ observed = FALSE
  /\ gate = NoGate
  /\ request = NoRequest
  /\ controller = NoController
  /\ run = Running
  /\ storeMapper = NoStoreMapper
  /\ fleet = NoFleet

ParseNext ==
  \/ \E k \in ParseKeys : CreateDefinition(k)
  \/ \E k \in ParseKeys, ns \in NamespaceLists : UpdateNamespaces(k, ns)
  \/ \E k \in ParseKeys : DeleteDefinition(k)
  \/ Get
  \/ ProcessNotFound
  \/ ProcessPanics
  \/ ProcessInstall
  \/ ProcessUnchanged
  \/ ProcessPublish
  \/ ProcessExpire
  \/ WorkerCrashExit
  \/ WorkerCrashRestart

ParseSpec == ParseInit /\ [][ParseNext]_vars

\* C30: the reconcile of a ScopeDefinition whose name holds no ":" is
\* dropped: process returns nil, the table is unchanged, the key is not put
\* back in the queue by the worker, and the worker is idle again, ready for
\* the next key. Violated: process indexes parts[1] of a one-element slice
\* and panics.
C30_UnparsableNameDropped ==
  [][pc = "process" /\ IsDef(lister[wkey]) /\ ~HasSeparator(wkey)
       /\ pc' # pc =>
       /\ pc' = "idle"
       /\ lastResult' = "nil"
       /\ scopes' = scopes
       /\ heap' = heap
       /\ (wkey \notin dirty => wkey \notin dirty')]_vars

\* the worker is in process for a key the lister has no ScopeDefinition for
ReconcilesAbsent == pc = "process" /\ ~IsDef(lister[wkey])

\* C31: a reconcile of a key without a ScopeDefinition (never created, or
\* deleted) does nothing: the table and every scope object stay as they are,
\* so a scope published earlier stays resolvable and unexpired; the informer
\* cache is not written; process returns nil and the worker does not put the
\* key back in the queue.
C31_AbsentIsNoOp ==
  [][ReconcilesAbsent /\ pc' # pc =>
       /\ scopes' = scopes
       /\ heap' = heap
       /\ lister' = lister
       /\ pc' = "idle"
       /\ lastResult' = "nil"
       /\ (wkey \notin dirty => wkey \notin dirty')
       /\ (wkey \notin dirty => queue' = queue)]_vars

\* the key of a deleted ScopeDefinition is reconciled while the table holds
\* a current scope for its selector
C31_Witness ==
  /\ pc = "process"
  /\ lister[wkey] = Gone
  /\ HasSeparator(wkey)
  /\ readScope(scopes, ScopeNameOf(wkey), ScopeValueOf(wkey)) # 0
  /\ heap[readScope(scopes, ScopeNameOf(wkey), ScopeValueOf(wkey))].current

\* C32: a read whose field selector has a term with the scopes.k8s.io/ prefix
\* leaves TransformScopeSelectors either with a namespace IN requirement added
\* to its label selector, or answered with an error; it is never handed to
\* storage without the requirement, also when the name after the prefix or
\* the value is empty. Violated: for the term scopes.k8s.io/=a the term is
\* removed, scopeName is empty and the selectors are returned as they are.
C32_ScopeTermNeverDropped ==
  [][request.pc = "handler" /\ request'.pc # request.pc
       /\ SelectScopeTerms(request.fieldSelector) # <<>> =>
       \/ /\ request'.pc = "responded"
          /\ request'.response[1] \in {"BadRequest", "InternalError"}
       \/ /\ request'.pc = "storage"
          /\ \E N \in NamespaceLists :
               request'.labelSelector =
                 Append(request.labelSelector, <<"metadata.namespace", "in", N>>)]_vars

\* reconciliation has quiesced: the worker is idle with nothing queued
Quiesced == alive /\ pc = "idle" /\ queue = <<>> /\ dirty = {}

\* C33: once reconciliation has quiesced, for every selector the table
\* resolves and every resource the store mapper knows, minimumResourceVersion
\* returns a value, not an error, also for a scope that has only had its
\* first generation. Violated: process installs the first generation and
\* returns without recording a resource version, so the status has no entry
\* for any store and the lookup ends with an error.
C33_FloorForEveryResolvableScope ==
  Quiesced =>
    \A sel \in Selectors, resource \in Resources :
      /\ readScope(scopes, sel[1], sel[2]) # 0
      /\ ~StoreForResourceFails(resource)
      => minimumResourceVersion(lister, sel[1], sel[2], resource).kind = "value"

\* the addresses the selector table holds
TableEntries(tbl) == UNION {{tbl[n][v] : v \in DOMAIN tbl[n]} : n \in DOMAIN tbl}

C35_NoSendOnClosedChannel ==
  [][\A rv \in ResourceVersions :
       (\/ SetMinimumResourceVersion(rv)
        \/ (gate.initialRV = 0 /\ SetInitialResourceVersion(rv)))
         => gate'.call \in {"nil", "error"}]_vars

\* the entries of serverScopeVersions that determine the minimum of a store:
\* those of the store whose number is the number of the minimum
Determining(def, i) ==
  {j \in 1..Len(def.serverScopeVersions) :
     /\ def.serverScopeVersions[j].storeID = def.minimumResourceVersions[i].storeID
     /\ ParseResourceVersion(def.serverScopeVersions[j].resourceVersion)
          = ParseResourceVersion(def.minimumResourceVersions[i].resourceVersion)}

\* C38: in every persisted state of a ScopeDefinition, every entry of
\* serverScopeVersions that determines a value of minimumResourceVersions
\* carries the current status.scopeID. Violated: buildMinimumResourceVersions
\* takes the greatest resource version of a store among all entries, whatever
\* their scopeID, and a change of the namespaces gives the status a new
\* scopeID while the entries recorded for the old one stay.
C38_FloorFromCurrentGeneration ==
  IsDef(lister[KeyWA]) =>
    \A i \in 1..Len(lister[KeyWA].minimumResourceVersions) :
      \A j \in Determining(lister[KeyWA], i) :
        lister[KeyWA].serverScopeVersions[j].scopeID = lister[KeyWA].scopeID

-----------------------------------------------------------------------------
(* The status writes of the servers of a fleet for one ScopeDefinition:    *)
(* what process sends after it has published a generation (lines 189-215)  *)
(* and what the API stores                                                  *)

\* the most versions of the object that are stored
MaxWrites == 4

\* the resource versions a store goes through
StoreResourceVersions == {9, 10}

\* a write to a store moves its resource version on
StoreAdvance(s) ==
  /\ alive
  /\ fleet.storeRV[s] + 1 \in StoreResourceVersions
  /\ fleet' = [fleet EXCEPT !.storeRV[s] = @ + 1]
  /\ UNCHANGED <<lister, nextID, queue, dirty, processing, scopes, heap, alive,
                 pc, wkey, wdef, wexisting, wnew, lastResult, resolved, held,
                 observed, gate, request, controller, run, storeMapper>>

\* def, err := r.lister.Get(key): the server's informer holds the object as
\* it is stored now; it may have been written again by the time the server
\* sends its update
FleetGet(srv) ==
  /\ alive
  /\ IsDef(lister[KeyWA])
  /\ fleet.servers[srv].pc = "idle"
  /\ fleet' = [fleet EXCEPT !.servers[srv] =
                 [pc |-> "versions", def |-> lister[KeyWA], version |-> fleet.version]]
  /\ UNCHANGED <<lister, nextID, queue, dirty, processing, scopes, heap, alive,
                 pc, wkey, wdef, wexisting, wnew, lastResult, resolved, held,
                 observed, gate, request, controller, run, storeMapper>>

RECURSIVE FleetEntries(_, _, _, _, _)
\* the loop over r.storeMapper.Stores(): SetServerScopeVersion with the
\* server's ID, the store, the scopeID and the formatted resource version
FleetEntries(ssvs, srv, stores, id, rvs) ==
  IF stores = {} THEN ssvs
  ELSE LET s == CHOOSE x \in stores : TRUE IN
         FleetEntries(
           SetServerScopeVersion(ssvs, ServerScopeVersion(srv, s, id, FormatUint(rvs[s]))),
           srv, stores \ {s}, id, rvs)

\* every CurrentResourceVersion call succeeds: the entries of the server are
\* set in its copy of the object
FleetVersions(srv) ==
  /\ alive
  /\ fleet.servers[srv].pc = "versions"
  /\ fleet' = [fleet EXCEPT
                 !.servers[srv].pc = "update",
                 !.servers[srv].def.serverScopeVersions =
                    FleetEntries(@, srv, Stores, fleet.servers[srv].def.scopeID,
                                 fleet.storeRV)]
  /\ UNCHANGED <<lister, nextID, queue, dirty, processing, scopes, heap, alive,
                 pc, wkey, wdef, wexisting, wnew, lastResult, resolved, held,
                 observed, gate, request, controller, run, storeMapper>>

\* a CurrentResourceVersion call fails: process returns the error, nothing
\* is sent
FleetFails(srv) ==
  /\ alive
  /\ fleet.servers[srv].pc = "versions"
  /\ fleet' = [fleet EXCEPT !.servers[srv] = IdleServer]
  /\ UNCHANGED <<lister, nextID, queue, dirty, processing, scopes, heap, alive,
                 pc, wkey, wdef, wexisting, wnew, lastResult, resolved, held,
                 observed, gate, request, controller, run, storeMapper>>

\* the update is optimistic: it is stored only if the object has not been
\* written since the version the request carries
Conflicts(requestVersion, storedVersion) == requestVersion # storedVersion

\* UpdateStatus of the server's copy: a conflict stores nothing; else Admit
\* computes the minimum resource versions and the object is stored
FleetUpdateStatus(srv) ==
  /\ alive
  /\ fleet.servers[srv].pc = "update"
  /\ IF Conflicts(fleet.servers[srv].version, fleet.version) \/ ~IsDef(lister[KeyWA])
     THEN /\ fleet' = [fleet EXCEPT !.servers[srv] = IdleServer]
          /\ UNCHANGED <<lister, queue, dirty>>
     ELSE /\ fleet.version < MaxWrites
          /\ \E mrvs \in buildMinimumResourceVersions(
                           fleet.servers[srv].def.serverScopeVersions) :
               lister' = [lister EXCEPT ![KeyWA] =
                  [fleet.servers[srv].def EXCEPT
                     !.scopeID = AdmitScopeID(lister[KeyWA], fleet.servers[srv].def,
                                              nextID + 1),
                     !.minimumResourceVersions = mrvs]]
          /\ fleet' = [fleet EXCEPT !.servers[srv] = IdleServer, !.version = @ + 1]
          /\ enqueue(KeyWA)
  /\ UNCHANGED <<nextID, processing, scopes, heap, alive,
                 pc, wkey, wdef, wexisting, wnew, lastResult, resolved, held,
                 observed, gate, request, controller, run, storeMapper>>

\* the controller stores other namespaces: Admit generates a scopeID and
\* computes the minimum resource versions from the entries as they are
FleetNewGeneration(ns) ==
  /\ alive
  /\ IsDef(lister[KeyWA])
  /\ ns # lister[KeyWA].namespaces
  /\ nextID < MaxGen
  /\ fleet.version < MaxWrites
  /\ \E mrvs \in buildMinimumResourceVersions(lister[KeyWA].serverScopeVersions) :
       lister' = [lister EXCEPT ![KeyWA] =
          [@ EXCEPT !.namespaces = ns,
                    !.scopeID = nextID + 1,
                    !.minimumResourceVersions = mrvs]]
  /\ nextID' = nextID + 1
  /\ fleet' = [fleet EXCEPT !.version = @ + 1]
  /\ enqueue(KeyWA)
  /\ UNCHANGED <<processing, scopes, heap, alive,
                 pc, wkey, wdef, wexisting, wnew, lastResult, resolved, held,
                 observed, gate, request, controller, run, storeMapper>>

\* the ScopeDefinition w:a is stored, with its first generation
FleetInit ==
  /\ lister = [k \in Keys |->
                IF k = KeyWA THEN Definition(0, <<>>, <<>>) ELSE NoDef]
  /\ nextID = 0
  /\ queue = <<>>
  /\ dirty = {}
  /\ processing = {}
  /\ scopes = <<>>
  /\ heap = <<>>
  /\ alive = TRUE
  /\ pc = "idle"
  /\ wkey = <<>>
  /\ wdef = NoDef
  /\ wexisting = 0
  /\ wnew = 0
  /\ lastResult = "none"
  /\ resolved = <<>>
  /\ held = 0
  /\ observed = FALSE
  /\ gate = NoGate
  /\ request = NoRequest
  /\ controller = NoController
  /\ run = Running
  /\ storeMapper = NoStoreMapper
  /\ fleet = [NoFleet EXCEPT !.version = 1]

FleetNext ==
  \/ \E s \in Stores : StoreAdvance(s)
  \/ \E srv \in Servers : FleetGet(srv)
  \/ \E srv \in Servers : FleetVersions(srv)
  \/ \E srv \in Servers : FleetFails(srv)
  \/ \E srv \in Servers : FleetUpdateStatus(srv)
  \/ \E ns \in NamespaceLists : FleetNewGeneration(ns)

FleetSpec == FleetInit /\ [][FleetNext]_vars

\* the entries of a list that are not of a server
OfOthers(ssvs, srv) ==
  {ssvs[i] : i \in {j \in 1..Len(ssvs) : ssvs[j].apiServerID # srv}}

Quiet == pc \in {"idle", "dead"} /\ (alive => queue = <<>> /\ dirty = {})

C40_FleetConverges ==
  \A k \in Keys :
    <>[](IsDef(lister[k]) => (alive /\ ServesDefinition(scopes, heap, k, lister[k])))

====
